---- MODULE Spec2Model ----
(***************************************************************************)
(* The GEDCOM X import of the genealogical tree service                    *)
(* (app/src/routes.py, app/src/db.py) as a state machine over a property   *)
(* graph store.  Strings are sequences of one-character strings, so that   *)
(* splitting, upper-casing and the identifier tests work on characters.    *)
(***************************************************************************)
EXTENDS Integers, Sequences, FiniteSets, TLC

VARIABLES
    nodes,   \* the store's Person nodes, in creation order
    edges,   \* the store's relationships, in creation order
    calls,   \* per call slot: the position and locals of import_gedcomx
    helper   \* a direct call of _extract_name or _extract_birth: argument and result

vars == <<nodes, edges, calls, helper>>

(***************************************************************************)
(* Bounds of the model.                                                    *)
(***************************************************************************)
MaxEntries == 3      \* most entries (persons plus relationships) of a payload
MaxSegLen == 2       \* longest enumerated last segment of a type string
MaxCaseFlips == 1    \* letters of a canonical word whose case is flipped
MaxList == 2         \* longest list of names, name forms or facts of a person

(***************************************************************************)
(* Python values.  None is the empty tuple and a value x is <<x>>; a dict  *)
(* key is either absent or present with a value (which may be None).       *)
(***************************************************************************)
None == <<>>
Some(x) == <<x>>
Absent == <<>>
Present(pv) == <<pv>>
PNull == Present(None)
PVal(x) == Present(Some(x))

\* dict.get(key): None when the key is absent
Get(f) == IF Len(f) = 0 THEN None ELSE f[1]
\* dict.get(key, default)
GetD(f, d) == IF Len(f) = 0 THEN d ELSE f[1]
\* truth value of an optional string or list: None and the empty one are false
Truthy(pv) == Len(pv) > 0 /\ Len(pv[1]) > 0
\* `x or d` for an optional string or list
OrElse(pv, d) == IF Truthy(pv) THEN pv[1] ELSE d

(***************************************************************************)
(* Characters: str.upper, str.lower, str.isalnum, str.isidentifier.        *)
(***************************************************************************)
LowerLetters ==
    <<"a","b","c","d","e","f","g","h","i","j","k","l","m",
      "n","o","p","q","r","s","t","u","v","w","x","y","z">>
UpperLetters ==
    <<"A","B","C","D","E","F","G","H","I","J","K","L","M",
      "N","O","P","Q","R","S","T","U","V","W","X","Y","Z">>
AsciiLetters == {LowerLetters[k] : k \in 1..26} \cup {UpperLetters[k] : k \in 1..26}
AsciiDigits == {"0","1","2","3","4","5","6","7","8","9"}
\* letters outside ASCII that the model's inputs use
WideLetters == {"é", "É", "ß"}
\* numeric characters that are alphanumeric but no identifier character
WideNumerics == {"²"}

\* str.upper of one character: a string ("ß" becomes "SS")
UpperCh(ch) ==
    IF \E k \in 1..26 : LowerLetters[k] = ch
    THEN <<UpperLetters[CHOOSE k \in 1..26 : LowerLetters[k] = ch]>>
    ELSE IF ch = "é" THEN <<"É">>
    ELSE IF ch = "ß" THEN <<"S", "S">>
    ELSE <<ch>>

\* str.lower of one character
LowerCh(ch) ==
    IF \E k \in 1..26 : UpperLetters[k] = ch
    THEN <<LowerLetters[CHOOSE k \in 1..26 : UpperLetters[k] = ch]>>
    ELSE IF ch = "É" THEN <<"é">>
    ELSE <<ch>>

RECURSIVE StrUpper(_)
StrUpper(s) == IF s = <<>> THEN <<>> ELSE UpperCh(Head(s)) \o StrUpper(Tail(s))

RECURSIVE StrLower(_)
StrLower(s) == IF s = <<>> THEN <<>> ELSE LowerCh(Head(s)) \o StrLower(Tail(s))

\* str.isalnum of one character
IsAlnum(ch) == ch \in AsciiLetters \cup AsciiDigits \cup WideLetters \cup WideNumerics

\* str.isidentifier: XID_Start or "_", then XID_Continue
IsIdStart(ch) == ch \in AsciiLetters \cup WideLetters \cup {"_"}
IsIdContinue(ch) == IsIdStart(ch) \/ ch \in AsciiDigits
IsIdentifier(s) ==
    /\ Len(s) > 0
    /\ IsIdStart(s[1])
    /\ \A k \in 2..Len(s) : IsIdContinue(s[k])

\* str.split(sep): the segments between the separators
RECURSIVE Split(_, _)
Split(s, sep) ==
    IF \A k \in 1..Len(s) : s[k] # sep
    THEN <<s>>
    ELSE LET k == CHOOSE k \in 1..Len(s) :
                      s[k] = sep /\ \A j \in 1..(k - 1) : s[j] # sep
         IN  <<SubSeq(s, 1, k - 1)>> \o Split(SubSeq(s, k + 1, Len(s)), sep)

\* s.startswith(prefix) and s.endswith(suffix)
StartsWith(s, prefix) ==
    Len(s) >= Len(prefix) /\ SubSeq(s, 1, Len(prefix)) = prefix
EndsWith(s, suffix) ==
    Len(s) >= Len(suffix) /\ SubSeq(s, Len(s) - Len(suffix) + 1, Len(s)) = suffix

(***************************************************************************)
(* The relationship type mapping of import_gedcomx.                        *)
(***************************************************************************)
COUPLE == <<"C","O","U","P","L","E">>
PARENTCHILD == <<"P","A","R","E","N","T","C","H","I","L","D">>
PARENT_CHILD == <<"P","A","R","E","N","T","_","C","H","I","L","D">>
RELATED == <<"R","E","L","A","T","E","D">>

\* gx_type = r.get("type", "")
RawType(typeField) == GetD(typeField, Some(<<>>))

\* a bug: the last segment is compared as written, not upper-cased
TypeToken_NoUpper(gx_type) ==
    IF Truthy(gx_type)
    THEN LET parts == Split(gx_type[1], "/") IN parts[Len(parts)]
    ELSE <<>>

\* t = gx_type.split('/')[-1].upper() if gx_type else ""
TypeToken(gx_type) ==
    IF Truthy(gx_type)
    THEN LET parts == Split(gx_type[1], "/") IN StrUpper(parts[Len(parts)])
    ELSE <<>>

\* a bug: every character outside A-Z, a-z and 0-9 is replaced
Sanitize_AsciiOnly(s) ==
    [k \in 1..Len(s) |-> IF s[k] \in AsciiLetters \cup AsciiDigits THEN s[k] ELSE "_"]

\* ''.join(ch if ch.isalnum() else '_' for ch in rel_type)
Sanitize(s) == [k \in 1..Len(s) |-> IF IsAlnum(s[k]) THEN s[k] ELSE "_"]

\* a bug: the sanitized token is used without the isidentifier test
FallbackType_Unchecked(t) == Sanitize(StrUpper(IF Len(t) > 0 THEN t ELSE RELATED))

\* a bug: the token is used as the label without replacing any character
FallbackType_Raw(t) == StrUpper(IF Len(t) > 0 THEN t ELSE RELATED)

\* the fallback branch: rel_type = (t or "RELATED").upper(), sanitized, and
\* RELATED when the result is no identifier
FallbackType(t) ==
    LET rel_type == Sanitize(StrUpper(IF Len(t) > 0 THEN t ELSE RELATED))
    IN  IF IsIdentifier(rel_type) THEN rel_type ELSE RELATED

\* rel_type of a relationship entry
RelType(gx_type) ==
    LET t == TypeToken(gx_type)
    IN  IF t = COUPLE THEN COUPLE
        ELSE IF t = PARENTCHILD \/ t = PARENT_CHILD THEN PARENT_CHILD
        ELSE FallbackType(t)

(***************************************************************************)
(* The helpers of the import: _extract_name, _extract_birth, _gx_ref_to_id.*)
(* A helper that can raise returns [raised, value].                        *)
(***************************************************************************)
Unknown == <<"U","n","k","n","o","w","n">>
BirthSuffix == <<"/","b","i","r","t","h">>
NoneStr == <<"N","o","n","e">>
AttributeError == "'NoneType' object has no attribute 'get'"

Ok(v) == [raised |-> FALSE, value |-> v]
Raised == [raised |-> TRUE, value |-> <<>>]

\* the default {} of person.get("display", {}), (fact.get("date") or {}) and
\* (r.get("person1") or {}): a dict without the key that is read next
EmptyDisplay == [name |-> Absent]
EmptyDate == [original |-> Absent]
EmptyRef == [resource |-> Absent]

\* _extract_name: person.get("display", {}) is None when the key is present
\* with a null value, and None.get raises AttributeError
ExtractName(person) ==
    LET names == OrElse(Get(person.names), <<>>)
        forms == IF Len(names) > 0 THEN OrElse(Get(names[1].nameForms), <<>>) ELSE <<>>
        full  == IF Len(forms) > 0 THEN Get(forms[1].fullText) ELSE None
        display == GetD(person.display, Some(EmptyDisplay))
    IN  IF Truthy(full) THEN Ok(full[1])
        ELSE IF Len(display) = 0 THEN Raised
        ELSE IF Truthy(Get(display[1].name)) THEN Ok(Get(display[1].name)[1])
        ELSE IF Truthy(Get(person.id)) THEN Ok(Get(person.id)[1])
        ELSE Ok(Unknown)

\* str(fact.get("type", "")).lower().endswith("/birth")
IsBirthFact(fact) ==
    LET ty == GetD(fact.type, Some(<<>>))
        text == IF Len(ty) = 0 THEN NoneStr ELSE ty[1]
    IN  EndsWith(StrLower(text), BirthSuffix)

\* a bug: a birth fact without a date is passed over
RECURSIVE FirstBirth_Dated(_)
FirstBirth_Dated(facts) ==
    IF facts = <<>> THEN None
    ELSE LET d == Get(Head(facts).date)
             date == IF Len(d) = 0 THEN EmptyDate ELSE d[1]
         IN  IF IsBirthFact(Head(facts)) /\ Len(Get(date.original)) > 0
             THEN Get(date.original)
             ELSE FirstBirth_Dated(Tail(facts))

\* _extract_birth: the date.original of the first birth fact, else None
RECURSIVE FirstBirth(_)
FirstBirth(facts) ==
    IF facts = <<>> THEN None
    ELSE IF IsBirthFact(Head(facts))
         THEN LET d == Get(Head(facts).date)
                  date == IF Len(d) = 0 THEN EmptyDate ELSE d[1]
              IN  Get(date.original)
         ELSE FirstBirth(Tail(facts))

ExtractBirth(person) == FirstBirth(OrElse(Get(person.facts), <<>>))

\* a bug: every leading '#' is removed, as ref.lstrip('#') does
RECURSIVE GxRefToId_AllHashes(_)
GxRefToId_AllHashes(ref) ==
    IF Len(ref) > 0 /\ Head(ref) = "#" THEN GxRefToId_AllHashes(Tail(ref)) ELSE ref

\* _gx_ref_to_id: ref[1:] if ref and ref.startswith('#') else ref
GxRefToId(ref) ==
    IF Len(ref) > 0 /\ StartsWith(ref, <<"#">>) THEN Tail(ref) ELSE ref

\* _gx_ref_to_id(((r.get(key) or {}).get("resource")) or "")
Endpoint(refField) ==
    LET o == Get(refField)
        obj == IF Len(o) = 0 THEN EmptyRef ELSE o[1]
    IN  GxRefToId(OrElse(Get(obj.resource), <<>>))

\* no direct call of a helper
NoHelper == [fn |-> "none", person |-> <<>>, called |-> FALSE, raised |-> FALSE,
             value |-> <<>>]

(***************************************************************************)
(* The store: MERGE and SET of the two upsert statements.                  *)
(***************************************************************************)
PersonStmt(id, name, birth, gx_id) ==
    [kind |-> "person", id |-> id, name |-> name, birth |-> birth,
     gx_id |-> gx_id, a |-> <<>>, b |-> <<>>, label |-> <<>>, gx |-> None]

RelStmt(label, a, b, gx) ==
    [kind |-> "rel", id |-> <<>>, name |-> <<>>, birth |-> None,
     gx_id |-> <<>>, a |-> a, b |-> b, label |-> label, gx |-> gx]

\* the indexes of the Person nodes with this id, ascending
Matching(ns, id) ==
    SelectSeq([k \in 1..Len(ns) |-> k], LAMBDA k : ns[k].id = id)

\* a bug: CREATE in place of MERGE, a new node on every upsert
MergePerson_Create(ns, st) ==
    Append(ns, [id |-> st.id, name |-> st.name, birth |-> st.birth,
                gx_id |-> Some(st.gx_id)])

\* a bug: SET n.birth = coalesce($birth, n.birth), a stored birth survives null
MergePerson_KeepBirth(ns, st) ==
    IF Len(Matching(ns, st.id)) > 0
    THEN [k \in 1..Len(ns) |->
            IF ns[k].id = st.id
            THEN [ns[k] EXCEPT !.name = st.name,
                               !.birth = IF st.birth = None THEN @ ELSE st.birth,
                               !.gx_id = Some(st.gx_id)]
            ELSE ns[k]]
    ELSE Append(ns, [id |-> st.id, name |-> st.name, birth |-> st.birth,
                     gx_id |-> Some(st.gx_id)])

\* a bug: ON CREATE SET, the properties of a matched node are kept
MergePerson_OnCreate(ns, st) ==
    IF Len(Matching(ns, st.id)) > 0 THEN ns
    ELSE Append(ns, [id |-> st.id, name |-> st.name, birth |-> st.birth,
                     gx_id |-> Some(st.gx_id)])

\* MERGE (n:Person {id: $id}) SET n.name = $name, n.birth = $birth, n.gx_id = $gx_id
MergePerson(ns, st) ==
    IF Len(Matching(ns, st.id)) > 0
    THEN [k \in 1..Len(ns) |->
            IF ns[k].id = st.id
            THEN [ns[k] EXCEPT !.name = st.name, !.birth = st.birth,
                               !.gx_id = Some(st.gx_id)]
            ELSE ns[k]]
    ELSE Append(ns, [id |-> st.id, name |-> st.name, birth |-> st.birth,
                     gx_id |-> Some(st.gx_id)])

\* a bug: CREATE in place of MERGE, a new edge on every statement
MergeEdge_Create(es, i, j, label, gx) ==
    Append(es, [a |-> i, b |-> j, label |-> label, gx_type |-> gx])

\* a bug: ON CREATE SET rel.gx_type, the gx_type of a matched edge is kept
MergeEdge_OnCreate(es, i, j, label, gx) ==
    IF \E k \in 1..Len(es) : es[k].a = i /\ es[k].b = j /\ es[k].label = label
    THEN es
    ELSE Append(es, [a |-> i, b |-> j, label |-> label, gx_type |-> gx])

\* MERGE (a)-[rel:LABEL]->(b) SET rel.gx_type = $gx, for one matched row (i, j)
MergeEdge(es, i, j, label, gx) ==
    IF \E k \in 1..Len(es) : es[k].a = i /\ es[k].b = j /\ es[k].label = label
    THEN [k \in 1..Len(es) |->
            IF es[k].a = i /\ es[k].b = j /\ es[k].label = label
            THEN [es[k] EXCEPT !.gx_type = gx]
            ELSE es[k]]
    ELSE Append(es, [a |-> i, b |-> j, label |-> label, gx_type |-> gx])

RECURSIVE MergeRowsB(_, _, _, _, _)
MergeRowsB(es, i, bs, label, gx) ==
    IF bs = <<>> THEN es
    ELSE MergeRowsB(MergeEdge(es, i, Head(bs), label, gx), i, Tail(bs), label, gx)

RECURSIVE MergeRowsA(_, _, _, _, _)
MergeRowsA(es, as, bs, label, gx) ==
    IF as = <<>> THEN es
    ELSE MergeRowsA(MergeRowsB(es, Head(as), bs, label, gx), Tail(as), bs, label, gx)

\* a bug: an edge is created although an endpoint has no node
MergeRel_Dangling(ns, es, st) ==
    IF Len(Matching(ns, st.a)) > 0 /\ Len(Matching(ns, st.b)) > 0
    THEN MergeRowsA(es, Matching(ns, st.a), Matching(ns, st.b), st.label, st.gx)
    ELSE Append(es, [a |-> 0, b |-> 0, label |-> st.label, gx_type |-> st.gx])

\* a bug: the edge is created without looking for an existing one
MergeRel_Create(ns, es, st) ==
    IF Len(Matching(ns, st.a)) > 0 /\ Len(Matching(ns, st.b)) > 0
    THEN Append(es, [a |-> Matching(ns, st.a)[1], b |-> Matching(ns, st.b)[1],
                     label |-> st.label, gx_type |-> st.gx])
    ELSE es

\* MATCH (a:Person {id: $a}), (b:Person {id: $b}) MERGE ... SET ...: one MERGE
\* per row of the match, none when either node is missing
MergeRel(ns, es, st) ==
    MergeRowsA(es, Matching(ns, st.a), Matching(ns, st.b), st.label, st.gx)

(***************************************************************************)
(* import_gedcomx, one call per slot.  pc: idle, session (the driver is    *)
(* acquired, the session is being opened), persons, rels (the two loops),  *)
(* exit (leaving the with block), done (the response is returned).         *)
(***************************************************************************)
Calls == {1, 2}

NoExc == [kind |-> "none", msg |-> "", phase |-> "", idx |-> 0]
NoResponse == [status |-> 0, body |-> ""]
NonDict == [isdict |-> FALSE, persons |-> Absent, relationships |-> Absent]

IdleCall ==
    [pc |-> "idle", payload |-> NonDict, persons |-> <<>>, relationships |-> <<>>,
     i |-> 0, driver |-> "none", driverCloses |-> 0,
     session |-> "none", sessionCloses |-> 0,
     issued |-> <<>>, exc |-> NoExc, response |-> NoResponse,
     prev |-> "none", startNodes |-> <<>>, startEdges |-> <<>>,
     orig |-> [nodes |-> <<>>, edges |-> <<>>]]

\* messages of the failures a store statement can end with
StoreErrors == {"ServiceUnavailable", "TransientError"}
Outcomes == {"ok"} \cup StoreErrors

\* a bug: the envelope is not validated
Validate_Always(payload) == TRUE

\* a bug: an object without its two keys is rejected as well
Validate_RequireLists(payload) ==
    payload.isdict /\ Len(payload.persons) > 0 /\ Len(payload.relationships) > 0

\* isinstance(payload, dict)
Validate(payload) == payload.isdict

\* a bug: the list is walked from its end
ItemAt_Reversed(list, i) == list[Len(list) + 1 - i]

\* the entry the i-th iteration of `for x in list` takes
ItemAt(list, i) == list[i]

\* a bug: only a missing id is skipped, an empty one is upserted
SkipPerson_OnlyNone(pid) == Len(pid) = 0

\* if not pid: continue
SkipPerson(pid) == ~Truthy(pid)

\* a bug: `and` in place of `or`
SkipRel_Both(src, dst) == Len(src) = 0 /\ Len(dst) = 0

\* if not src or not dst: continue
SkipRel(src, dst) == Len(src) = 0 \/ Len(dst) = 0

\* the person upsert of an entry with an id (name extracted before the call)
PersonUpsert(pid, name, person) == PersonStmt(pid, name, ExtractBirth(person), pid)

\* a bug: the edge is drawn from person2 to person1
RelUpsert_Reversed(r) ==
    RelStmt(RelType(RawType(r.type)), Endpoint(r.person2), Endpoint(r.person1),
            RawType(r.type))

\* the relationship upsert of an entry
RelUpsert(r) ==
    RelStmt(RelType(RawType(r.type)), Endpoint(r.person1), Endpoint(r.person2),
            RawType(r.type))

\* where control goes after the persons loop took its i-th entry, after the
\* relationships loop took its i-th entry, and after the session opened
AfterPerson(cr) ==
    IF cr.i < Len(cr.persons) THEN [cr EXCEPT !.i = cr.i + 1]
    ELSE IF Len(cr.relationships) > 0 THEN [cr EXCEPT !.pc = "rels", !.i = 1]
    ELSE [cr EXCEPT !.pc = "exit", !.i = 0]

AfterRel(cr) ==
    IF cr.i < Len(cr.relationships) THEN [cr EXCEPT !.i = cr.i + 1]
    ELSE [cr EXCEPT !.pc = "exit", !.i = 0]

AfterOpen(cr) ==
    IF Len(cr.persons) > 0 THEN [cr EXCEPT !.pc = "persons", !.i = 1]
    ELSE AfterPerson([cr EXCEPT !.i = 0])

\* an exception leaves the loops: control goes to the except clause
Raise(cr, kind, msg) ==
    [cr EXCEPT !.exc = [kind |-> kind, msg |-> msg, phase |-> cr.pc, idx |-> cr.i],
               !.pc = "exit"]

\* session.run(...) of one statement: it is issued, and it returns or raises
Issue(cr, st, outcome) ==
    [cr EXCEPT !.issued = Append(cr.issued, [st |-> st, outcome |-> outcome])]

\* a bug: the driver is closed on the success path only
CloseDriver_OnSuccess(cr) ==
    IF cr.driver # "none" /\ cr.exc.kind = "none"
    THEN [cr EXCEPT !.driver = "closed", !.driverCloses = cr.driverCloses + 1]
    ELSE cr

\* close_driver(driver): if driver: driver.close()
CloseDriver(cr) ==
    IF cr.driver # "none"
    THEN [cr EXCEPT !.driver = "closed", !.driverCloses = cr.driverCloses + 1]
    ELSE cr

\* leaving `with driver.session() as session`
CloseSession(cr) ==
    IF cr.session = "open"
    THEN [cr EXCEPT !.session = "closed", !.sessionCloses = cr.sessionCloses + 1]
    ELSE cr

\* a bug: a fixed detail in place of str(exc)
Respond_Generic(cr) ==
    IF cr.exc.kind = "none" THEN [status |-> 200, body |-> "success"]
    ELSE [status |-> 500, body |-> "Internal Server Error"]

\* return {"status": "success"}, or HTTPException(500, detail=str(exc))
Respond(cr) ==
    IF cr.exc.kind = "none" THEN [status |-> 200, body |-> "success"]
    ELSE [status |-> 500, body |-> cr.exc.msg]

\* entry of the handler: validation, the two lists, get_driver(); prev tells
\* how the call before it with this payload ended, startNodes and startEdges
\* are the store the call finds, orig is the store the first of a run of
\* attempts found
Begin(c, payload, prev, orig) ==
    /\ calls' = [calls EXCEPT ![c] =
         IF ~Validate(payload)
         THEN [IdleCall EXCEPT !.pc = "done", !.payload = payload, !.prev = prev,
                  !.startNodes = nodes, !.startEdges = edges, !.orig = orig,
                  !.response = [status |-> 400, body |-> "Invalid JSON payload"]]
         ELSE [IdleCall EXCEPT !.pc = "session", !.payload = payload, !.prev = prev,
                  !.startNodes = nodes, !.startEdges = edges, !.orig = orig,
                  !.persons = OrElse(Get(payload.persons), <<>>),
                  !.relationships = OrElse(Get(payload.relationships), <<>>),
                  !.driver = "open"]]
    /\ UNCHANGED <<nodes, edges, helper>>

\* driver.session(): opens, or raises inside the try block
OpenSession(c) ==
    /\ calls[c].pc = "session"
    /\ \E outcome \in Outcomes :
          calls' = [calls EXCEPT ![c] =
             IF outcome = "ok"
             THEN AfterOpen([calls[c] EXCEPT !.session = "open"])
             ELSE Raise(calls[c], "store", outcome)]
    /\ UNCHANGED <<nodes, edges, helper>>

\* one iteration of the persons loop
PersonStep(c) ==
    /\ calls[c].pc = "persons"
    /\ UNCHANGED helper
    /\ LET cr == calls[c]
           p == ItemAt(cr.persons, cr.i)
           pid == Get(p.id)
           name == ExtractName(p)
       IN  IF SkipPerson(pid)
           THEN /\ calls' = [calls EXCEPT ![c] = AfterPerson(cr)]
                /\ UNCHANGED <<nodes, edges>>
           ELSE IF name.raised
           THEN /\ calls' = [calls EXCEPT ![c] = Raise(cr, "attribute", AttributeError)]
                /\ UNCHANGED <<nodes, edges>>
           ELSE \E outcome \in Outcomes :
                  LET st == PersonUpsert(pid[1], name.value, p)
                  IN  IF outcome = "ok"
                      THEN /\ nodes' = MergePerson(nodes, st)
                           /\ calls' = [calls EXCEPT ![c] = AfterPerson(Issue(cr, st, outcome))]
                           /\ UNCHANGED edges
                      ELSE /\ calls' = [calls EXCEPT ![c] =
                                           Raise(Issue(cr, st, outcome), "store", outcome)]
                           /\ UNCHANGED <<nodes, edges>>

\* one iteration of the relationships loop
RelStep(c) ==
    /\ calls[c].pc = "rels"
    /\ UNCHANGED helper
    /\ LET cr == calls[c]
           r == ItemAt(cr.relationships, cr.i)
           st == RelUpsert(r)
       IN  IF SkipRel(st.a, st.b)
           THEN /\ calls' = [calls EXCEPT ![c] = AfterRel(cr)]
                /\ UNCHANGED <<nodes, edges>>
           ELSE \E outcome \in Outcomes :
                  IF outcome = "ok"
                  THEN /\ edges' = MergeRel(nodes, edges, st)
                       /\ calls' = [calls EXCEPT ![c] = AfterRel(Issue(cr, st, outcome))]
                       /\ UNCHANGED nodes
                  ELSE /\ calls' = [calls EXCEPT ![c] =
                                       Raise(Issue(cr, st, outcome), "store", outcome)]
                       /\ UNCHANGED <<nodes, edges>>

\* a bug: the with block is left and the handler never returns
Finish_Hang(c) ==
    /\ calls[c].pc = "exit"
    /\ calls' = [calls EXCEPT ![c] = CloseSession(calls[c])]
    /\ UNCHANGED <<nodes, edges, helper>>

\* a bug: one driver shared by the calls, closed by whichever ends first
Finish_CloseAll(c) ==
    /\ calls[c].pc = "exit"
    /\ calls' = [d \in Calls |->
          IF d = c
          THEN LET cr == CloseDriver(CloseSession(calls[c]))
               IN  [cr EXCEPT !.pc = "done", !.response = Respond(cr)]
          ELSE [calls[d] EXCEPT !.driver = IF @ = "open" THEN "closed" ELSE @]]
    /\ UNCHANGED <<nodes, edges, helper>>

\* the end of the with block, the except and finally clauses, the response
Finish(c) ==
    /\ calls[c].pc = "exit"
    /\ calls' = [calls EXCEPT ![c] =
          LET cr == CloseDriver(CloseSession(calls[c]))
          IN  [cr EXCEPT !.pc = "done", !.response = Respond(cr)]]
    /\ UNCHANGED <<nodes, edges, helper>>

(***************************************************************************)
(* create_tree (POST /tree), in the same call slots.  pc: tree_session,    *)
(* tree_persons, tree_rels (the two loops), tree_exit, done.  The tree is  *)
(* a validated GenealogicalTree: ids, names and types are strings.         *)
(***************************************************************************)
\* the fixed part of the detail f"Invalid relationship type: {rel.type}"; the
\* type that follows it is that of the entry the exception names
InvalidType == "Invalid relationship type: "

TreePersonStmt(person) ==
    [kind |-> "tree_person", id |-> person.id, name |-> person.name,
     birth |-> person.birth, gx_id |-> <<>>, a |-> <<>>, b |-> <<>>,
     label |-> <<>>, gx |-> None]

TreeRelStmt(rel_type, rel) ==
    [kind |-> "tree_rel", id |-> <<>>, name |-> <<>>, birth |-> None,
     gx_id |-> <<>>, a |-> rel.start_id, b |-> rel.end_id, label |-> rel_type,
     gx |-> None]

\* MERGE (p:Person {id: $id}) SET p.name = $name, p.birth = $birth
TreeMergePerson(ns, st) ==
    IF Len(Matching(ns, st.id)) > 0
    THEN [k \in 1..Len(ns) |->
            IF ns[k].id = st.id
            THEN [ns[k] EXCEPT !.name = st.name, !.birth = st.birth]
            ELSE ns[k]]
    ELSE Append(ns, [id |-> st.id, name |-> st.name, birth |-> st.birth,
                     gx_id |-> None])

\* a bug: one relationship per pair of nodes, a new label replaces the old one
TreeMergeEdge_OnePerPair(es, i, j, label) ==
    IF \E k \in 1..Len(es) : es[k].a = i /\ es[k].b = j
    THEN [k \in 1..Len(es) |->
            IF es[k].a = i /\ es[k].b = j THEN [es[k] EXCEPT !.label = label]
            ELSE es[k]]
    ELSE Append(es, [a |-> i, b |-> j, label |-> label, gx_type |-> None])

\* MERGE (a)-[r:LABEL]->(b) for one matched row (i, j): no property is set
TreeMergeEdge(es, i, j, label) ==
    IF \E k \in 1..Len(es) : es[k].a = i /\ es[k].b = j /\ es[k].label = label
    THEN es
    ELSE Append(es, [a |-> i, b |-> j, label |-> label, gx_type |-> None])

RECURSIVE TreeMergeRowsB(_, _, _, _)
TreeMergeRowsB(es, i, bs, label) ==
    IF bs = <<>> THEN es
    ELSE TreeMergeRowsB(TreeMergeEdge(es, i, Head(bs), label), i, Tail(bs), label)

RECURSIVE TreeMergeRowsA(_, _, _, _)
TreeMergeRowsA(es, as, bs, label) ==
    IF as = <<>> THEN es
    ELSE TreeMergeRowsA(TreeMergeRowsB(es, Head(as), bs, label), Tail(as), bs, label)

\* MATCH (a:Person {id: $start_id}), (b:Person {id: $end_id}) MERGE (a)-[r:T]->(b)
TreeMergeRel(ns, es, st) ==
    TreeMergeRowsA(es, Matching(ns, st.a), Matching(ns, st.b), st.label)

\* rel_type = rel.type.upper()
TreeRelType(rel) == StrUpper(rel.type)

\* rel_type.isidentifier()
TreeTypeOk(rel_type) == IsIdentifier(rel_type)

TreeAfterRel(cr) ==
    IF cr.i < Len(cr.relationships) THEN [cr EXCEPT !.i = cr.i + 1]
    ELSE [cr EXCEPT !.pc = "tree_exit", !.i = 0]

TreeAfterPerson(cr) ==
    IF cr.i < Len(cr.persons) THEN [cr EXCEPT !.i = cr.i + 1]
    ELSE IF Len(cr.relationships) > 0 THEN [cr EXCEPT !.pc = "tree_rels", !.i = 1]
    ELSE [cr EXCEPT !.pc = "tree_exit", !.i = 0]

\* a bug: every relationship type is validated before the first write
TreeAfterOpen_ValidateFirst(cr) ==
    IF \E k \in 1..Len(cr.relationships) : ~IsIdentifier(StrUpper(cr.relationships[k].type))
    THEN [cr EXCEPT !.exc = [kind |-> "http", msg |-> "Invalid relationship type: ",
                             phase |-> "tree_rels",
                             idx |-> CHOOSE k \in 1..Len(cr.relationships) :
                                       /\ ~IsIdentifier(StrUpper(cr.relationships[k].type))
                                       /\ \A j \in 1..(k - 1) :
                                             IsIdentifier(StrUpper(cr.relationships[j].type))],
                    !.pc = "tree_exit"]
    ELSE IF Len(cr.persons) > 0 THEN [cr EXCEPT !.pc = "tree_persons", !.i = 1]
    ELSE IF Len(cr.relationships) > 0 THEN [cr EXCEPT !.pc = "tree_rels", !.i = 1]
    ELSE [cr EXCEPT !.pc = "tree_exit", !.i = 0]

TreeAfterOpen(cr) ==
    IF Len(cr.persons) > 0 THEN [cr EXCEPT !.pc = "tree_persons", !.i = 1]
    ELSE TreeAfterPerson([cr EXCEPT !.i = 0])

\* an exception leaves the loops and the with block
TreeRaise(cr, kind, msg) ==
    [cr EXCEPT !.exc = [kind |-> kind, msg |-> msg, phase |-> cr.pc, idx |-> cr.i],
               !.pc = "tree_exit"]

\* a bug: the HTTPException is caught by `except Exception` and becomes a 500
TreeRespond_All500(cr) ==
    IF cr.exc.kind = "none" THEN [status |-> 200, body |-> "success"]
    ELSE [status |-> 500, body |-> cr.exc.msg]

\* return {"status": "success"}; except HTTPException: raise; except Exception
\* as exc: raise HTTPException(500, detail=str(exc))
TreeRespond(cr) ==
    IF cr.exc.kind = "none" THEN [status |-> 200, body |-> "success"]
    ELSE IF cr.exc.kind = "http" THEN [status |-> 400, body |-> cr.exc.msg]
    ELSE [status |-> 500, body |-> cr.exc.msg]

\* entry of create_tree: get_driver()
CreateTreeBegin(c, tree) ==
    /\ calls' = [calls EXCEPT ![c] =
          [IdleCall EXCEPT !.pc = "tree_session", !.payload = tree,
              !.startNodes = nodes, !.startEdges = edges,
              !.orig = [nodes |-> nodes, edges |-> edges],
              !.persons = tree.persons[1][1],
              !.relationships = tree.relationships[1][1],
              !.driver = "open"]]
    /\ UNCHANGED <<nodes, edges, helper>>

\* driver.session(): opens, or raises inside the try block
CreateTreeOpenSession(c) ==
    /\ calls[c].pc = "tree_session"
    /\ \E outcome \in Outcomes :
          calls' = [calls EXCEPT ![c] =
             IF outcome = "ok"
             THEN TreeAfterOpen([calls[c] EXCEPT !.session = "open"])
             ELSE TreeRaise(calls[c], "store", outcome)]
    /\ UNCHANGED <<nodes, edges, helper>>

\* one iteration of `for person in tree.persons`
CreateTreePersonStep(c) ==
    /\ calls[c].pc = "tree_persons"
    /\ UNCHANGED <<edges, helper>>
    /\ LET cr == calls[c]
           st == TreePersonStmt(ItemAt(cr.persons, cr.i))
       IN  \E outcome \in Outcomes :
             IF outcome = "ok"
             THEN /\ nodes' = TreeMergePerson(nodes, st)
                  /\ calls' = [calls EXCEPT ![c] = TreeAfterPerson(Issue(cr, st, outcome))]
             ELSE /\ calls' = [calls EXCEPT ![c] =
                                  TreeRaise(Issue(cr, st, outcome), "store", outcome)]
                  /\ UNCHANGED nodes

\* one iteration of `for rel in tree.relationships`
CreateTreeRelStep(c) ==
    /\ calls[c].pc = "tree_rels"
    /\ UNCHANGED <<nodes, helper>>
    /\ LET cr == calls[c]
           rel == ItemAt(cr.relationships, cr.i)
           rel_type == TreeRelType(rel)
           st == TreeRelStmt(rel_type, rel)
       IN  IF ~TreeTypeOk(rel_type)
           THEN /\ calls' = [calls EXCEPT ![c] = TreeRaise(cr, "http", InvalidType)]
                /\ UNCHANGED edges
           ELSE \E outcome \in Outcomes :
                  IF outcome = "ok"
                  THEN /\ edges' = TreeMergeRel(nodes, edges, st)
                       /\ calls' = [calls EXCEPT ![c] = TreeAfterRel(Issue(cr, st, outcome))]
                  ELSE /\ calls' = [calls EXCEPT ![c] =
                                       TreeRaise(Issue(cr, st, outcome), "store", outcome)]
                       /\ UNCHANGED edges

\* the end of the with block, the except and finally clauses, the response
CreateTreeFinish(c) ==
    /\ calls[c].pc = "tree_exit"
    /\ calls' = [calls EXCEPT ![c] =
          LET cr == CloseDriver(CloseSession(calls[c]))
          IN  [cr EXCEPT !.pc = "done", !.response = TreeRespond(cr)]]
    /\ UNCHANGED <<nodes, edges, helper>>

(***************************************************************************)
(* Inputs: the person and relationship entries payloads are built from.    *)
(***************************************************************************)
Id1 == <<"I","1">>
Id2 == <<"I","2">>
John == <<"J","o","h","n">>
Jane == <<"J","a","n","e">>
Ann == <<"A","n","n">>
Date1970 == <<"1","9","7","0">>
GxOrg == <<"h","t","t","p",":","/","/","g","e","d","c","o","m","x",".","o","r","g","/">>
Couple == <<"C","o","u","p","l","e">>
ParentChild == <<"P","a","r","e","n","t","C","h","i","l","d">>
Ref(id) == PVal([resource |-> PVal(<<"#">> \o id)])

\* no id key; the display block is null, which is never read
PersonNoId ==
    [id |-> Absent, names |-> Absent, display |-> PNull, facts |-> Absent]
\* an empty id
PersonEmptyId ==
    [id |-> PVal(<<>>), names |-> Absent, display |-> PVal([name |-> PVal(Ann)]),
     facts |-> Absent]
\* I1 with a full text name and a birth fact
PersonJohn ==
    [id |-> PVal(Id1),
     names |-> PVal(<<[nameForms |-> PVal(<<[fullText |-> PVal(John)]>>)]>>),
     display |-> Absent,
     facts |-> PVal(<<[type |-> PVal(GxOrg \o <<"B","i","r","t","h">>),
                       date |-> PVal([original |-> PVal(Date1970)])]>>)]
\* I1 again, with a display name and no birth fact
PersonJane1 ==
    [id |-> PVal(Id1), names |-> PNull, display |-> PVal([name |-> PVal(Jane)]),
     facts |-> PVal(<<>>)]
\* I2 with neither a name nor a display block: the name is the id
PersonI2 ==
    [id |-> PVal(Id2), names |-> Absent, display |-> Absent, facts |-> Absent]
\* I2 with a null display block
PersonNullDisplay ==
    [id |-> PVal(Id2), names |-> Absent, display |-> PNull, facts |-> Absent]
\* I2 with a display name
PersonAnnI2 ==
    [id |-> PVal(Id2), names |-> Absent, display |-> PVal([name |-> PVal(Ann)]),
     facts |-> Absent]

PersonInputs ==
    {PersonNoId, PersonEmptyId, PersonJohn, PersonJane1, PersonI2, PersonNullDisplay}

\* http://gedcomx.org/Couple from #I1 to #I2
RelCouple ==
    [type |-> PVal(GxOrg \o Couple), person1 |-> Ref(Id1), person2 |-> Ref(Id2)]
\* the same edge with another spelling of the type
RelCoupleLower ==
    [type |-> PVal(StrLower(Couple)), person1 |-> Ref(Id1), person2 |-> Ref(Id2)]
\* an unknown type, from I2 (a reference without '#') to #I1
RelCustom ==
    [type |-> PVal(<<"x","/","K","i","n","-","1">>),
     person1 |-> PVal([resource |-> PVal(Id2)]), person2 |-> Ref(Id1)]
\* person2 missing
RelNoPerson2 ==
    [type |-> PVal(GxOrg \o ParentChild), person1 |-> Ref(Id1), person2 |-> Absent]

\* a couple edge in the other direction, from #I2 to #I1
RelCoupleBack ==
    [type |-> PVal(COUPLE), person1 |-> Ref(Id2), person2 |-> Ref(Id1)]

RelInputs == {RelCouple, RelCoupleLower, RelCoupleBack, RelCustom, RelNoPerson2}

Lists(S, n) == UNION {[1..k -> S] : k \in 0..n}
ListFields(S, n) == {Absent, PNull} \cup {PVal(l) : l \in Lists(S, n)}
FieldLen(f) == Len(OrElse(Get(f), <<>>))

Payloads ==
    {NonDict} \cup
    {[isdict |-> TRUE, persons |-> pf, relationships |-> rf] :
        <<pf, rf>> \in {x \in ListFields(PersonInputs, MaxEntries)
                               \X ListFields(RelInputs, MaxEntries) :
                          FieldLen(x[1]) + FieldLen(x[2]) <= MaxEntries}}

(***************************************************************************)
(* The store a failure-free run of the two loops leaves.                   *)
(***************************************************************************)
RECURSIVE PersonsPass(_, _)
PersonsPass(ns, persons) ==
    IF persons = <<>> THEN [nodes |-> ns, raised |-> FALSE]
    ELSE LET p == Head(persons)
             pid == Get(p.id)
             name == ExtractName(p)
         IN  IF SkipPerson(pid) THEN PersonsPass(ns, Tail(persons))
             ELSE IF name.raised THEN [nodes |-> ns, raised |-> TRUE]
             ELSE PersonsPass(MergePerson(ns, PersonUpsert(pid[1], name.value, p)),
                              Tail(persons))

RECURSIVE RelsPass(_, _, _)
RelsPass(ns, es, rels) ==
    IF rels = <<>> THEN es
    ELSE LET st == RelUpsert(Head(rels))
         IN  IF SkipRel(st.a, st.b) THEN RelsPass(ns, es, Tail(rels))
             ELSE RelsPass(ns, MergeRel(ns, es, st), Tail(rels))

StoreAfter(ns, es, persons, rels) ==
    LET pp == PersonsPass(ns, persons)
    IN  [nodes |-> pp.nodes,
         edges |-> IF pp.raised THEN es ELSE RelsPass(pp.nodes, es, rels)]

\* stores earlier imports have left: the model's runs start from one of them
EmptyStore == [nodes |-> <<>>, edges |-> <<>>]
SeedStore ==
    StoreAfter(<<>>, <<>>, <<PersonI2, PersonJane1>>, <<RelCoupleLower, RelCustom>>)
SeedStores == {EmptyStore, SeedStore}

(***************************************************************************)
(* The specification of the import: a call, and retries of it with the     *)
(* identical payload, in slot 1.                                           *)
(***************************************************************************)
Init ==
    /\ \E s \in SeedStores : nodes = s.nodes /\ edges = s.edges
    /\ calls = [c \in Calls |-> IdleCall]
    /\ helper = NoHelper

Start(c) ==
    /\ calls[c].pc = "idle"
    /\ \E payload \in Payloads :
          Begin(c, payload, "none", [nodes |-> nodes, edges |-> edges])

\* the client sends the identical payload again; after a store failure this
\* is one more attempt of the same import
Retry(c) ==
    /\ calls[c].pc = "done"
    /\ Begin(c, calls[c].payload,
             IF calls[c].exc.kind = "store" THEN "failed" ELSE "clean",
             IF calls[c].exc.kind = "store" THEN calls[c].orig
             ELSE [nodes |-> nodes, edges |-> edges])

Next ==
    \/ Start(1)
    \/ Retry(1)
    \/ OpenSession(1)
    \/ PersonStep(1)
    \/ RelStep(1)
    \/ Finish(1)

Spec == Init /\ [][Next]_vars

(***************************************************************************)
(* The specification of the relationships pass over many type values and   *)
(* endpoint shapes: one call whose payload holds one relationship entry.   *)
(***************************************************************************)
SegAlphabet == {"a", "B", "1", "_", "-", "é", "²", "ß"}

CaseMasks(n) ==
    {S \in SUBSET (1..n) : Cardinality(S) <= MaxCaseFlips
                            \/ Cardinality(S) >= n - MaxCaseFlips}
CaseVariants(W) ==
    {[k \in 1..Len(W) |-> IF k \in S THEN LowerCh(W[k])[1] ELSE W[k]] :
        S \in CaseMasks(Len(W))}

\* last segments: spellings of the canonical words, and every short string
TypeWords ==
    CaseVariants(COUPLE) \cup CaseVariants(PARENTCHILD) \cup CaseVariants(PARENT_CHILD)
        \cup {Couple, ParentChild}
        \cup Lists(SegAlphabet, MaxSegLen)
\* what precedes the last segment
TypePrefixes == {<<>>, GxOrg, <<"/">>, <<"C","O","U","P","L","E","/">>, <<"é","/">>}

TypeInputs ==
    {Absent, PNull} \cup {PVal(pre \o w) : pre \in TypePrefixes, w \in TypeWords}

\* person1 / person2 values
EndpointInputs ==
    {Absent, PNull, PVal(EmptyRef), PVal([resource |-> PNull]),
     PVal([resource |-> PVal(<<>>)]), Ref(<<>>), Ref(Id1), Ref(Id2),
     PVal([resource |-> PVal(Id2)]), Ref(<<"#">> \o Id1)}

TypedRels == {[type |-> t, person1 |-> Ref(Id1), person2 |-> Ref(Id2)] : t \in TypeInputs}
EndpointRels ==
    {[type |-> PVal(GxOrg \o ParentChild), person1 |-> e1, person2 |-> e2] :
        e1 \in EndpointInputs, e2 \in EndpointInputs}

\* one entry of either kind, or an entry of the second kind followed by RelCouple
RelPayloads ==
    {[isdict |-> TRUE, persons |-> Absent, relationships |-> PVal(rs)] :
        rs \in {<<r>> : r \in TypedRels \cup EndpointRels}
               \cup {<<r, RelCouple>> : r \in EndpointRels}}

StartRel(c) ==
    /\ calls[c].pc = "idle"
    /\ \E payload \in RelPayloads :
          Begin(c, payload, "none", [nodes |-> nodes, edges |-> edges])

NextRel ==
    \/ StartRel(1)
    \/ OpenSession(1)
    \/ RelStep(1)
    \/ Finish(1)

SpecRel == Init /\ [][NextRel]_vars

(***************************************************************************)
(* The specification of two concurrent calls with the identical payload,   *)
(* each with the driver and session it acquired; a statement is one atomic *)
(* step of the store.                                                      *)
(***************************************************************************)
TwinPersons == {PersonJohn, PersonJane1, PersonI2}
TwinRels == {RelCouple, RelCoupleLower}
TwinPayloads ==
    {[isdict |-> TRUE, persons |-> PVal(ps), relationships |-> PVal(rs)] :
        <<ps, rs>> \in {x \in Lists(TwinPersons, MaxEntries) \X Lists(TwinRels, MaxEntries) :
                          Len(x[1]) + Len(x[2]) <= MaxEntries}}

\* the first request arrives
StartFirst ==
    /\ calls[1].pc = "idle" /\ calls[2].pc = "idle"
    /\ \E payload \in TwinPayloads :
          Begin(1, payload, "none", [nodes |-> nodes, edges |-> edges])

\* the same request arrives once more, while the first one runs or after it
StartSecond ==
    /\ calls[1].pc # "idle" /\ calls[2].pc = "idle"
    /\ Begin(2, calls[1].payload, "none", calls[1].orig)

NextTwin ==
    \/ StartFirst
    \/ StartSecond
    \/ OpenSession(1) \/ OpenSession(2)
    \/ PersonStep(1) \/ PersonStep(2)
    \/ RelStep(1) \/ RelStep(2)
    \/ Finish(1) \/ Finish(2)

SpecTwin == Init /\ [][NextTwin]_vars

(***************************************************************************)
(* The specification of create_tree: one call on the empty or the seeded   *)
(* store.                                                                  *)
(***************************************************************************)
Married == <<"M","A","R","R","I","E","D">>
TreePersonInputs ==
    {[id |-> Id1, name |-> John, birth |-> Some(Date1970)],
     [id |-> Id2, name |-> Jane, birth |-> None]}
\* MARRIED, married, MARRIED TO (a space), the empty type, COUPLE
TreeTypeInputs ==
    {Married, StrLower(Married), Married \o <<" ","T","O">>, <<>>, COUPLE}
TreeRelInputs == {[start_id |-> Id1, end_id |-> Id2, type |-> t] : t \in TreeTypeInputs}
Trees ==
    {[isdict |-> TRUE, persons |-> PVal(ps), relationships |-> PVal(rs)] :
        <<ps, rs>> \in {x \in Lists(TreePersonInputs, MaxEntries)
                               \X Lists(TreeRelInputs, MaxEntries) :
                          Len(x[1]) + Len(x[2]) <= MaxEntries}}

StartTree(c) ==
    /\ calls[c].pc = "idle"
    /\ \E tree \in Trees : CreateTreeBegin(c, tree)

NextTree ==
    \/ StartTree(1)
    \/ CreateTreeOpenSession(1)
    \/ CreateTreePersonStep(1)
    \/ CreateTreeRelStep(1)
    \/ CreateTreeFinish(1)

SpecTree == Init /\ [][NextTree]_vars

(***************************************************************************)
(* The specification of the two person helpers called directly: the        *)
(* argument is a person record whose nested fields are each present,       *)
(* missing, null or empty.                                                 *)
(***************************************************************************)
\* lists whose first element is any of First and whose others are of Later
HeadedLists(First, Later, n) ==
    {<<>>} \cup {<<h>> \o t : h \in First, t \in Lists(Later, n - 1)}

FullTexts == {Absent, PNull, PVal(<<>>), PVal(John), PVal(Ann)}
FormInputs == {[fullText |-> f] : f \in FullTexts}
LaterForms == {[fullText |-> PVal(Ann)], [fullText |-> Absent]}
NameFormFields ==
    {Absent, PNull} \cup {PVal(l) : l \in HeadedLists(FormInputs, LaterForms, MaxList)}
NameInputs == {[nameForms |-> f] : f \in NameFormFields}
LaterNames == {[nameForms |-> PVal(<<[fullText |-> PVal(Ann)]>>)]}
NamesFields ==
    {Absent, PNull} \cup {PVal(l) : l \in HeadedLists(NameInputs, LaterNames, MaxList)}
DisplayFields ==
    {Absent, PNull, PVal(EmptyDisplay), PVal([name |-> PNull]),
     PVal([name |-> PVal(<<>>)]), PVal([name |-> PVal(Jane)])}
IdFields == {Absent, PNull, PVal(<<>>), PVal(Id1)}
NamePersons ==
    {[id |-> i, names |-> n, display |-> d, facts |-> Absent] :
        i \in IdFields, n \in NamesFields, d \in DisplayFields}

FactTypes ==
    {Absent, PNull, PVal(<<>>), PVal(GxOrg \o <<"B","i","r","t","h">>),
     PVal(<<"/","B","I","R","T","H">>), PVal(GxOrg \o <<"D","e","a","t","h">>),
     PVal(<<"b","i","r","t","h">>)}
FactDates ==
    {Absent, PNull, PVal(EmptyDate), PVal([original |-> PNull]),
     PVal([original |-> PVal(<<>>)]), PVal([original |-> PVal(Date1970)]),
     PVal([original |-> PVal(<<"1","9","8","0">>)])}
FactInputs == {[type |-> t, date |-> d] : t \in FactTypes, d \in FactDates}
FactsFields == {Absent, PNull} \cup {PVal(l) : l \in Lists(FactInputs, MaxList)}
BirthPersons ==
    {[id |-> PVal(Id1), names |-> Absent, display |-> Absent, facts |-> f] :
        f \in FactsFields}

HelperCall(fn, person) ==
    [fn |-> fn, person |-> person, called |-> FALSE, raised |-> FALSE, value |-> <<>>]

InitHelpers ==
    /\ nodes = <<>> /\ edges = <<>>
    /\ calls = [c \in Calls |-> IdleCall]
    /\ helper \in {HelperCall("_extract_name", p) : p \in NamePersons}
                  \cup {HelperCall("_extract_birth", p) : p \in BirthPersons}

\* name = _extract_name(person)
ExtractNameCall ==
    /\ helper.fn = "_extract_name" /\ ~helper.called
    /\ LET r == ExtractName(helper.person)
       IN  helper' = [helper EXCEPT !.called = TRUE, !.raised = r.raised,
                                    !.value = r.value]
    /\ UNCHANGED <<nodes, edges, calls>>

\* birth = _extract_birth(person)
ExtractBirthCall ==
    /\ helper.fn = "_extract_birth" /\ ~helper.called
    /\ helper' = [helper EXCEPT !.called = TRUE, !.value = ExtractBirth(helper.person)]
    /\ UNCHANGED <<nodes, edges, calls>>

NextHelpers ==
    \/ ExtractNameCall
    \/ ExtractBirthCall

SpecHelpers == InitHelpers /\ [][NextHelpers]_vars

(***************************************************************************)
(* The specification of one call that runs to its end: the event loop      *)
(* resumes the handler whenever it can take a step, and every store        *)
(* operation it awaits returns or fails.                                   *)
(***************************************************************************)
LivePersons == {PersonJohn, PersonNullDisplay, PersonNoId}
\* an entry that gets its statement and one, without person2, that is skipped
LiveRels == {RelCoupleBack, [RelCoupleBack EXCEPT !.person2 = Absent]}
LivePayloads ==
    {NonDict} \cup
    {[isdict |-> TRUE, persons |-> PVal(ps), relationships |-> PVal(rs)] :
        <<ps, rs>> \in {x \in Lists(LivePersons, MaxEntries) \X Lists(LiveRels, MaxEntries) :
                          Len(x[1]) + Len(x[2]) <= MaxEntries}}

StartLive(c) ==
    /\ calls[c].pc = "idle"
    /\ \E payload \in LivePayloads :
          Begin(c, payload, "none", [nodes |-> nodes, edges |-> edges])

NextLive ==
    \/ StartLive(1)
    \/ OpenSession(1)
    \/ PersonStep(1)
    \/ RelStep(1)
    \/ Finish(1)

SpecLive ==
    /\ Init /\ [][NextLive]_vars
    /\ WF_vars(OpenSession(1)) /\ WF_vars(PersonStep(1))
    /\ WF_vars(RelStep(1)) /\ WF_vars(Finish(1))

(***************************************************************************)
(* The specification of the two writing endpoints together: a call of      *)
(* import_gedcomx or create_tree in slot 1 and, once it has its response,  *)
(* a call of either in slot 2.                                             *)
(***************************************************************************)
\* two records of the id I1: one with a birth fact, one without
BothPersons == {PersonJohn, PersonJane1}
BothRels == {RelCustom}
BothPayloads ==
    {[isdict |-> TRUE, persons |-> PVal(ps), relationships |-> PVal(rs)] :
        <<ps, rs>> \in {x \in Lists(BothPersons, MaxList) \X Lists(BothRels, MaxList) :
                          Len(x[1]) + Len(x[2]) <= MaxList}}
BothTreePersons == {p \in TreePersonInputs : p.id = Id1}
BothTreeRels == {r \in TreeRelInputs : r.type \in {Married, Married \o <<" ","T","O">>}}
BothTrees ==
    {[isdict |-> TRUE, persons |-> PVal(ps), relationships |-> PVal(rs)] :
        <<ps, rs>> \in {x \in Lists(BothTreePersons, MaxList) \X Lists(BothTreeRels, MaxList) :
                          Len(x[1]) + Len(x[2]) <= MaxList}}

\* the call before this one, if any, has its response
Sequential(c) == \A d \in Calls : d < c => calls[d].pc = "done"

StartImport(c) ==
    /\ calls[c].pc = "idle" /\ Sequential(c)
    /\ \E payload \in BothPayloads :
          Begin(c, payload, "none", [nodes |-> nodes, edges |-> edges])

StartCreate(c) ==
    /\ calls[c].pc = "idle" /\ Sequential(c)
    /\ \E tree \in BothTrees : CreateTreeBegin(c, tree)

NextBoth ==
    \/ StartImport(1) \/ StartImport(2)
    \/ StartCreate(1) \/ StartCreate(2)
    \/ OpenSession(1) \/ OpenSession(2)
    \/ PersonStep(1) \/ PersonStep(2)
    \/ RelStep(1) \/ RelStep(2)
    \/ Finish(1) \/ Finish(2)
    \/ CreateTreeOpenSession(1) \/ CreateTreeOpenSession(2)
    \/ CreateTreePersonStep(1) \/ CreateTreePersonStep(2)
    \/ CreateTreeRelStep(1) \/ CreateTreeRelStep(2)
    \/ CreateTreeFinish(1) \/ CreateTreeFinish(2)

SpecBoth == Init /\ [][NextBoth]_vars

(***************************************************************************)
(* The specification of the persons pass over many shapes of the name      *)
(* fields: one call whose payload holds one person entry.                  *)
(***************************************************************************)
PersonPayloads ==
    {[isdict |-> TRUE, persons |-> PVal(<<p>>), relationships |-> Absent] :
        p \in NamePersons}

StartPerson(c) ==
    /\ calls[c].pc = "idle"
    /\ \E payload \in PersonPayloads :
          Begin(c, payload, "none", [nodes |-> nodes, edges |-> edges])

NextPerson ==
    \/ StartPerson(1)
    \/ OpenSession(1)
    \/ PersonStep(1)
    \/ Finish(1)

SpecPerson == Init /\ [][NextPerson]_vars

(***************************************************************************)
(* The specification of two concurrent calls with different payloads, each *)
(* with a record of I1 and a record of I2; a statement is one atomic step  *)
(* of the store.                                                           *)
(***************************************************************************)
PairFirsts == {PersonJohn, PersonJane1}
PairSeconds == {PersonI2, PersonAnnI2}
PairPayloads ==
    {[isdict |-> TRUE, persons |-> PVal(ps), relationships |-> Absent] :
        ps \in {<<p, q>> : p \in PairFirsts, q \in PairSeconds}
               \cup {<<q, p>> : p \in PairFirsts, q \in PairSeconds}}

\* a request arrives
StartOne ==
    /\ calls[1].pc = "idle" /\ calls[2].pc = "idle"
    /\ \E payload \in PairPayloads :
          Begin(1, payload, "none", [nodes |-> nodes, edges |-> edges])

\* a request with another payload arrives, while the first one runs or after it
StartOther ==
    /\ calls[1].pc # "idle" /\ calls[2].pc = "idle"
    /\ \E payload \in PairPayloads \ {calls[1].payload} :
          Begin(2, payload, "none", calls[1].orig)

NextPair ==
    \/ StartOne
    \/ StartOther
    \/ OpenSession(1) \/ OpenSession(2)
    \/ PersonStep(1) \/ PersonStep(2)
    \/ Finish(1) \/ Finish(2)

SpecPair == Init /\ [][NextPair]_vars

(***************************************************************************)
(* Properties.                                                             *)
(***************************************************************************)
\* the lists a payload carries, as the claims read them
PersonsOf(payload) == IF Truthy(Get(payload.persons)) THEN Get(payload.persons)[1] ELSE <<>>
RelsOf(payload) ==
    IF Truthy(Get(payload.relationships)) THEN Get(payload.relationships)[1] ELSE <<>>
HasId(p) == Len(p.id) > 0 /\ Len(p.id[1]) > 0 /\ Len(p.id[1][1]) > 0
NodesWithId(id) == {k \in 1..Len(nodes) : nodes[k].id = id}

\* C1: when a call ends whose payload is identical to that of the call before
\* it, and neither call had a store failure, the store (Person nodes with their
\* properties, edges with label and gx_type) is exactly what the call before left,
\* and every id of the store, and every id of the payload, has exactly one node.
C1_ImportTwiceIsImportOnce ==
    \A c \in Calls :
        LET cr == calls[c]
        IN  (cr.pc = "done" /\ cr.prev = "clean" /\ cr.exc.kind # "store") =>
               /\ nodes = cr.startNodes
               /\ edges = cr.startEdges
               /\ \A k \in 1..Len(nodes) : Cardinality(NodesWithId(nodes[k].id)) = 1
               /\ cr.exc.kind = "none" =>
                     \A j \in 1..Len(PersonsOf(cr.payload)) :
                        HasId(PersonsOf(cr.payload)[j]) =>
                           Cardinality(NodesWithId(PersonsOf(cr.payload)[j].id[1][1])) = 1

\* a second successful run of a payload that upserts I1 twice with different
\* properties and merges an edge
C1_Witness ==
    /\ calls[1].pc = "done" /\ calls[1].prev = "clean" /\ calls[1].exc.kind = "none"
    /\ PersonsOf(calls[1].payload) = <<PersonJohn, PersonJane1>>
    /\ RelsOf(calls[1].payload) = <<RelCouple>>
    /\ Len(calls[1].issued) = 3
    /\ Len(edges) > 0

RECURSIVE Applied(_, _, _)
Applied(ns, es, entries) ==
    IF entries = <<>> THEN [nodes |-> ns, edges |-> es]
    ELSE LET e == Head(entries)
         IN  IF e.outcome # "ok" THEN Applied(ns, es, Tail(entries))
             ELSE IF e.st.kind = "person"
                  THEN Applied(MergePerson(ns, e.st), es, Tail(entries))
                  ELSE Applied(ns, MergeRel(ns, es, e.st), Tail(entries))

\* C7: after a statement of the persons or relationships pass failed, the failing
\* statement is the last one the call issued, every statement before it
\* returned, the store is the start store with exactly the returned statements
\* applied (earlier upserts kept, the failing and later ones absent), and the
\* call ends with 500 and the store's message.
C7_StoreFailureAborts ==
    \A c \in Calls :
        LET cr == calls[c]
            n == Len(cr.issued)
        IN  (cr.exc.kind = "store" /\ cr.exc.phase \in {"persons", "rels"}) =>
               /\ cr.pc \in {"exit", "done"}
               /\ n > 0
               /\ cr.issued[n].outcome = cr.exc.msg
               /\ cr.exc.msg \in StoreErrors
               /\ \A j \in 1..(n - 1) : cr.issued[j].outcome = "ok"
               /\ cr.exc.phase = "persons" => n <= cr.exc.idx
               /\ nodes = Applied(cr.startNodes, cr.startEdges, cr.issued).nodes
               /\ edges = Applied(cr.startNodes, cr.startEdges, cr.issued).edges
               /\ cr.pc = "done" =>
                     cr.response = [status |-> 500, body |-> cr.exc.msg]

\* a relationship statement failed after two person upserts that stay in the store
C7_Witness ==
    /\ calls[1].pc = "done" /\ calls[1].response.status = 500
    /\ calls[1].exc.kind = "store" /\ calls[1].exc.phase = "rels"
    /\ Len(calls[1].issued) = 3
    /\ calls[1].startNodes = <<>> /\ Len(nodes) = 2 /\ edges = <<>>

\* C8: while a call runs its driver is open and not yet closed; once the call
\* has returned (success, or 500 after a failure at any step) the driver it
\* acquired is closed and was closed exactly once, and so is its session.
C8_DriverClosedOnce ==
    \A c \in Calls :
        LET cr == calls[c]
        IN  /\ cr.pc \in {"session", "persons", "rels", "exit"} =>
                 cr.driver = "open" /\ cr.driverCloses = 0 /\ cr.sessionCloses = 0
            /\ cr.pc \in {"persons", "rels"} => cr.session = "open"
            /\ (cr.pc = "done" /\ cr.payload.isdict) =>
                 /\ cr.driver = "closed" /\ cr.driverCloses = 1
                 /\ cr.session # "open"
                 /\ cr.sessionCloses = (IF cr.session = "closed" THEN 1 ELSE 0)
                 /\ cr.response.status \in {200, 500}
                 /\ cr.exc.phase \in {"persons", "rels"} => cr.session = "closed"

\* a call that failed in the relationships pass and has closed its driver
C8_Witness ==
    /\ calls[1].pc = "done" /\ calls[1].response.status = 500
    /\ calls[1].exc.phase = "rels"
    /\ calls[1].driver = "closed" /\ calls[1].session = "closed"

\* the statements the claims expect of a payload, in order
IsPrefix(s, t) == Len(s) <= Len(t) /\ s = SubSeq(t, 1, Len(s))
PersonIdsOf(payload) ==
    LET kept == SelectSeq(PersonsOf(payload), HasId)
    IN  [k \in 1..Len(kept) |-> kept[k].id[1][1]]
Resolved(r) == Len(Endpoint(r.person1)) > 0 /\ Len(Endpoint(r.person2)) > 0
RelEndsOf(payload) ==
    LET kept == SelectSeq(RelsOf(payload), Resolved)
    IN  [k \in 1..Len(kept) |->
            <<Endpoint(kept[k].person1), Endpoint(kept[k].person2), RawType(kept[k].type)>>]
IssuedPersonIds(cr) ==
    LET kept == SelectSeq(cr.issued, LAMBDA e : e.st.kind = "person")
    IN  [k \in 1..Len(kept) |-> kept[k].st.id]
IssuedRelEnds(cr) ==
    LET kept == SelectSeq(cr.issued, LAMBDA e : e.st.kind = "rel")
    IN  [k \in 1..Len(kept) |-> <<kept[k].st.a, kept[k].st.b, kept[k].st.gx>>]

\* C9: no person upsert is issued after a relationship statement; the person
\* upserts are those of the payload's persons with an id, in payload order, and
\* the relationship statements those of the payload's relationships with both
\* endpoints resolved, in payload order: a prefix of them while the call runs or
\* after it failed, all of them, once each, when it succeeds.
C9_StatementOrder ==
    \A c \in Calls :
        LET cr == calls[c]
        IN  /\ \A j, k \in 1..Len(cr.issued) :
                  (j < k /\ cr.issued[j].st.kind = "rel") => cr.issued[k].st.kind = "rel"
            /\ IsPrefix(IssuedPersonIds(cr), PersonIdsOf(cr.payload))
            /\ IsPrefix(IssuedRelEnds(cr), RelEndsOf(cr.payload))
            /\ (cr.pc = "rels" /\ cr.i > 0) =>
                  IssuedPersonIds(cr) = PersonIdsOf(cr.payload)
            /\ (cr.pc = "done" /\ cr.response.status = 200) =>
                  /\ IssuedPersonIds(cr) = PersonIdsOf(cr.payload)
                  /\ IssuedRelEnds(cr) = RelEndsOf(cr.payload)
                  /\ \A j \in 1..Len(cr.issued) : cr.issued[j].outcome = "ok"

\* a successful call that issued two different person upserts and then a
\* relationship statement
C9_Witness ==
    /\ calls[1].pc = "done" /\ calls[1].response.status = 200
    /\ PersonsOf(calls[1].payload) = <<PersonI2, PersonJohn>>
    /\ Len(calls[1].issued) = 3
    /\ calls[1].issued[1].st.id = Id2 /\ calls[1].issued[2].st.id = Id1
    /\ calls[1].issued[3].st.kind = "rel"

\* the grammar [A-Za-z_][A-Za-z0-9_]*
AsciiIdentifier(l) ==
    /\ Len(l) > 0
    /\ l[1] \in AsciiLetters \cup {"_"}
    /\ \A k \in 1..Len(l) : l[k] \in AsciiLetters \cup AsciiDigits \cup {"_"}
\* letters, digits and underscore, no digit first, letters of any script
WideIdentifier(l) ==
    /\ Len(l) > 0
    /\ l[1] \in AsciiLetters \cup WideLetters \cup {"_"}
    /\ \A k \in 1..Len(l) : l[k] \in AsciiLetters \cup WideLetters \cup AsciiDigits \cup {"_"}
\* what follows the last '/' of a string
LastSegment(s) ==
    LET at == {k \in 1..Len(s) : s[k] = "/"}
    IN  IF at = {} THEN s
        ELSE SubSeq(s, (CHOOSE k \in at : \A j \in at : j <= k) + 1, Len(s))
\* the text of a type value: empty when the type is absent or null
TypeText(gx) == IF Len(gx) = 0 THEN <<>> ELSE gx[1]
IsAsciiText(s) == \A k \in 1..Len(s) : s[k] \notin WideLetters \cup WideNumerics
RelEntries(cr) == SelectSeq(cr.issued, LAMBDA e : e.st.kind = "rel")

\* C2 as stated: the label of every relationship statement matches
\* [A-Za-z_][A-Za-z0-9_]* (ASCII letters, digits and underscore, no digit first).
C2_AsciiLabel ==
    \A c \in Calls : \A j \in 1..Len(calls[c].issued) :
        calls[c].issued[j].st.kind = "rel" => AsciiIdentifier(calls[c].issued[j].st.label)

\* C2 as amended: the label of every relationship statement is non-empty, holds
\* only letters, digits and underscore and does not start with a digit, where a
\* letter may be a letter outside ASCII; it matches [A-Za-z_][A-Za-z0-9_]*
\* whenever the last segment of the type is ASCII.
C2_IdentifierLabel ==
    \A c \in Calls : \A j \in 1..Len(calls[c].issued) :
        LET st == calls[c].issued[j].st
        IN  st.kind = "rel" =>
               /\ WideIdentifier(st.label)
               /\ IsAsciiText(LastSegment(TypeText(st.gx))) => AsciiIdentifier(st.label)

\* a statement whose label is the upper-cased non-ASCII letter of its type
C2_Witness ==
    \E j \in 1..Len(calls[1].issued) :
        /\ calls[1].issued[j].st.gx = Some(<<"é">>)
        /\ calls[1].issued[j].st.label = <<"É">>

\* C3: when the last '/'-separated segment of the type, upper-cased, is COUPLE
\* the label is COUPLE, and when it is PARENTCHILD or PARENT_CHILD the label is
\* PARENT_CHILD, whatever the casing and whatever precedes the last '/'.
C3_CanonicalLabels ==
    \A c \in Calls : \A j \in 1..Len(calls[c].issued) :
        LET st == calls[c].issued[j].st
            seg == StrUpper(LastSegment(TypeText(st.gx)))
        IN  st.kind = "rel" =>
               /\ seg = COUPLE => st.label = COUPLE
               /\ seg \in {PARENTCHILD, PARENT_CHILD} => st.label = PARENT_CHILD

\* http://gedcomx.org/ParentChild was merged as a PARENT_CHILD edge
C3_Witness ==
    /\ calls[1].pc = "done" /\ calls[1].response.status = 200
    /\ Len(calls[1].issued) = 1
    /\ calls[1].issued[1].st.gx = Some(GxOrg \o ParentChild)
    /\ calls[1].issued[1].st.label = PARENT_CHILD
    /\ \E k \in 1..Len(edges) : edges[k].label = PARENT_CHILD

\* C4: no person upsert is issued for an entry without an id (key missing, null
\* or empty) and no node is created for it; the entries with an id are upserted
\* all the same, in order, once the persons pass is through; an exception of the
\* persons pass never arises at an entry without an id, and a call without an
\* exception returns success.
C4_PersonWithoutIdSkipped ==
    \A c \in Calls :
        LET cr == calls[c]
            ps == PersonsOf(cr.payload)
        IN  /\ IsPrefix(IssuedPersonIds(cr), PersonIdsOf(cr.payload))
            /\ \A k \in 1..Len(nodes) : Len(nodes[k].id) > 0
            /\ (cr.pc = "rels" \/ (cr.pc \in {"exit", "done"} /\ cr.payload.isdict
                                   /\ cr.exc.phase \notin {"session", "persons"})) =>
                  /\ IssuedPersonIds(cr) = PersonIdsOf(cr.payload)
                  /\ \A k \in 1..Len(ps) : HasId(ps[k]) => NodesWithId(ps[k].id[1][1]) # {}
            /\ cr.exc.phase = "persons" => HasId(ps[cr.exc.idx])
            /\ (cr.pc = "done" /\ cr.payload.isdict /\ cr.exc.kind = "none") =>
                  cr.response = [status |-> 200, body |-> "success"]

\* a successful call on an empty store whose payload holds an entry without an
\* id key, one with an empty id, and then I1, the only node of the store
C4_Witness ==
    /\ calls[1].pc = "done" /\ calls[1].response.status = 200
    /\ PersonsOf(calls[1].payload) = <<PersonNoId, PersonEmptyId, PersonJohn>>
    /\ Len(calls[1].issued) = 1 /\ calls[1].issued[1].st.id = Id1
    /\ calls[1].startNodes = <<>>
    /\ Len(nodes) = 1 /\ nodes[1].id = Id1

\* the resource text of an endpoint, empty when person or resource is absent
ResourceText(refField) ==
    IF Len(refField) = 0 \/ Len(refField[1]) = 0 THEN <<>>
    ELSE LET res == refField[1][1].resource
         IN  IF Len(res) = 0 \/ Len(res[1]) = 0 THEN <<>> ELSE res[1][1]
Unresolved(r) ==
    \/ ResourceText(r.person1) \in {<<>>, <<"#">>}
    \/ ResourceText(r.person2) \in {<<>>, <<"#">>}
KeptRels(payload) == SelectSeq(RelsOf(payload), LAMBDA r : ~Unresolved(r))
RECURSIVE EdgesOf(_, _, _)
EdgesOf(ns, es, rels) ==
    IF rels = <<>> THEN es
    ELSE EdgesOf(ns, MergeRel(ns, es, RelUpsert(Head(rels))), Tail(rels))

\* C5: no relationship statement is issued for an entry whose person1 or
\* person2 has no resource or one that resolves to the empty string; the entries
\* after it are processed all the same; when the call had no exception the
\* statements are exactly those of the other entries, the edges are those the
\* other entries merge, and the call returns success.
C5_UnresolvedRelSkipped ==
    \A c \in Calls :
        LET cr == calls[c]
            kept == KeptRels(cr.payload)
        IN  /\ Len(RelEntries(cr)) <= Len(kept)
            /\ \A j \in 1..Len(RelEntries(cr)) :
                  /\ RelEntries(cr)[j].st.a = Endpoint(kept[j].person1)
                  /\ RelEntries(cr)[j].st.b = Endpoint(kept[j].person2)
                  /\ Len(RelEntries(cr)[j].st.a) > 0 /\ Len(RelEntries(cr)[j].st.b) > 0
            /\ (cr.pc \in {"exit", "done"} /\ cr.payload.isdict /\ cr.exc.kind = "none") =>
                  /\ Len(RelEntries(cr)) = Len(kept)
                  /\ edges = EdgesOf(nodes, cr.startEdges, kept)
            /\ cr.exc.phase = "rels" => ~Unresolved(RelsOf(cr.payload)[cr.exc.idx])
            /\ (cr.pc = "done" /\ cr.payload.isdict /\ cr.exc.kind = "none") =>
                  cr.response = [status |-> 200, body |-> "success"]

\* a successful call whose first entry has no person2 and whose second entry
\* was issued as the only statement and has set the gx_type of its edge
C5_Witness ==
    /\ calls[1].pc = "done" /\ calls[1].response.status = 200
    /\ Len(RelsOf(calls[1].payload)) = 2
    /\ RelsOf(calls[1].payload)[1].person1 = Ref(Id1)
    /\ RelsOf(calls[1].payload)[1].person2 = Absent
    /\ Len(calls[1].issued) = 1
    /\ calls[1].issued[1].st.label = COUPLE
    /\ \E k \in 1..Len(edges) :
          /\ edges[k].label = COUPLE /\ edges[k].gx_type = Some(GxOrg \o Couple)
          /\ calls[1].startEdges[k].gx_type = Some(StrLower(Couple))

\* the last segment of the type, upper-cased, is none of the canonical words
Unrecognized(gx) ==
    StrUpper(LastSegment(TypeText(gx))) \notin {COUPLE, PARENTCHILD, PARENT_CHILD}

\* C10: whatever the type of an entry with both endpoints resolved (absent,
\* null, empty, any string), its statement is issued with a label of letters,
\* digits and underscore that does not start with a digit, and the call returns
\* success unless a store operation failed: the only exception of the
\* relationships pass is a store failure.
C10_UnknownTypeNeverFails ==
    \A c \in Calls :
        LET cr == calls[c]
            kept == KeptRels(cr.payload)
        IN  /\ \A j \in 1..Len(RelEntries(cr)) :
                  /\ RelEntries(cr)[j].st.gx = RawType(kept[j].type)
                  /\ WideIdentifier(RelEntries(cr)[j].st.label)
            /\ cr.exc.phase = "rels" =>
                  /\ cr.exc.kind = "store"
                  /\ cr.issued[Len(cr.issued)].outcome # "ok"
            /\ (cr.pc \in {"exit", "done"} /\ cr.payload.isdict /\ cr.exc.kind # "store") =>
                  /\ cr.exc.kind = "none"
                  /\ Len(RelEntries(cr)) = Len(kept)
            /\ (cr.pc = "done" /\ cr.payload.isdict /\ cr.exc.kind # "store") =>
                  cr.response = [status |-> 200, body |-> "success"]

\* a successful call that merged an edge for a type that is no canonical word
\* and needed sanitizing
C10_Witness ==
    /\ calls[1].pc = "done" /\ calls[1].response.status = 200
    /\ Len(calls[1].issued) = 1
    /\ calls[1].issued[1].st.gx = Some(GxOrg \o <<"a", "-">>)
    /\ Unrecognized(calls[1].issued[1].st.gx)
    /\ calls[1].issued[1].st.label = <<"A", "_">>
    /\ \E k \in 1..Len(edges) : edges[k].label = <<"A", "_">>

\* the text of an optional string field and the list of an optional list
\* field: empty when the key is missing or null
TextOf(f) == IF Len(f) = 0 \/ Len(f[1]) = 0 THEN <<>> ELSE f[1][1]
ListOf(f) == IF Len(f) = 0 \/ Len(f[1]) = 0 THEN <<>> ELSE f[1][1]
FullTextOf(p) ==
    LET ns == ListOf(p.names)
        fs == IF ns = <<>> THEN <<>> ELSE ListOf(ns[1].nameForms)
    IN  IF fs = <<>> THEN <<>> ELSE TextOf(fs[1].fullText)
DisplayNameOf(p) ==
    IF Len(p.display) = 0 \/ Len(p.display[1]) = 0 THEN <<>>
    ELSE TextOf(p.display[1][1].name)
ExpectedName(p) ==
    IF FullTextOf(p) # <<>> THEN FullTextOf(p)
    ELSE IF DisplayNameOf(p) # <<>> THEN DisplayNameOf(p)
    ELSE IF TextOf(p.id) # <<>> THEN TextOf(p.id)
    ELSE <<"U","n","k","n","o","w","n">>

\* C11 as stated: for every person record _extract_name returns a non-empty
\* string: the fullText of the first name form of the first name when it is
\* present and non-empty, else display.name when present and non-empty, else the
\* id when present and non-empty, else "Unknown".
C11_NamePriority ==
    (helper.fn = "_extract_name" /\ helper.called) =>
        /\ ~helper.raised
        /\ Len(helper.value) > 0
        /\ helper.value = ExpectedName(helper.person)

\* C12 as stated: neither helper raises, whichever nested fields of the person
\* record are present, missing, null or empty.
C12_HelpersNeverRaise == helper.called => ~helper.raised

\* the facts whose type ends with "/birth" whatever the case of its letters
BirthFacts(fs) ==
    {k \in 1..Len(fs) :
        LET t == TextOf(fs[k].type)
        IN  Len(t) >= 6 /\ StrLower(SubSeq(t, Len(t) - 5, Len(t))) = <<"/","b","i","r","t","h">>}
\* date.original of a fact: None when the date or its original is missing or null
OriginalOf(fact) ==
    IF Len(fact.date) = 0 \/ Len(fact.date[1]) = 0 THEN None
    ELSE IF Len(fact.date[1][1].original) = 0 THEN None
    ELSE fact.date[1][1].original[1]

\* C13: _extract_birth returns the date.original of the first fact, in input
\* order, whose type ends with "/birth" compared case-insensitively; None when
\* that fact has no date or no date.original, even if a later birth fact has
\* one, and None when no fact matches.
C13_FirstBirthFact ==
    (helper.fn = "_extract_birth" /\ helper.called) =>
        LET fs == ListOf(helper.person.facts)
            at == BirthFacts(fs)
        IN  /\ ~helper.raised
            /\ at = {} => helper.value = None
            /\ at # {} =>
                  helper.value = OriginalOf(fs[CHOOSE k \in at : \A j \in at : k <= j])

\* an undated birth fact, written in capitals, before a dated one: None
C13_Witness ==
    /\ helper.fn = "_extract_birth" /\ helper.called
    /\ ListOf(helper.person.facts) =
          <<[type |-> PVal(<<"/","B","I","R","T","H">>), date |-> Absent],
            [type |-> PVal(GxOrg \o <<"B","i","r","t","h">>),
             date |-> PVal([original |-> PVal(Date1970)])]>>
    /\ helper.value = None

\* a reference without its first character when that is '#', else as it is
StripHash(t) == IF Len(t) > 0 /\ t[1] = "#" THEN SubSeq(t, 2, Len(t)) ELSE t
HashResolved(r) ==
    /\ StripHash(ResourceText(r.person1)) # <<>>
    /\ StripHash(ResourceText(r.person2)) # <<>>

\* C14: the endpoints of the relationship statements are the references of the
\* entries with exactly one leading '#' removed and any other reference as it
\* is ("##I1" gives "#I1"); an entry one of whose references is missing, empty
\* or "#" alone, which gives the empty string, has no statement, and the entries
\* after it have theirs.
C14_RefToId ==
    \A c \in Calls :
        LET cr == calls[c]
            kept == SelectSeq(RelsOf(cr.payload), HashResolved)
        IN  /\ Len(RelEntries(cr)) <= Len(kept)
            /\ \A j \in 1..Len(RelEntries(cr)) :
                  /\ RelEntries(cr)[j].st.a = StripHash(ResourceText(kept[j].person1))
                  /\ RelEntries(cr)[j].st.b = StripHash(ResourceText(kept[j].person2))
            /\ (cr.pc = "done" /\ cr.response.status = 200) =>
                  Len(RelEntries(cr)) = Len(kept)

\* a successful call whose first entry, from "#" to "##I1", had no statement
\* and whose second entry, from "#I1" to "#I2", had one from I1 to I2
C14_Witness ==
    /\ calls[1].pc = "done" /\ calls[1].response.status = 200
    /\ Len(RelsOf(calls[1].payload)) = 2
    /\ ResourceText(RelsOf(calls[1].payload)[1].person1) = <<"#">>
    /\ ResourceText(RelsOf(calls[1].payload)[1].person2) = <<"#", "#", "I", "1">>
    /\ Len(calls[1].issued) = 1
    /\ calls[1].issued[1].st.a = Id1 /\ calls[1].issued[1].st.b = Id2

\* the birth the claims expect of a person record
ExpectedBirth(p) ==
    LET fs == ListOf(p.facts)
        at == BirthFacts(fs)
    IN  IF at = {} THEN None ELSE OriginalOf(fs[CHOOSE k \in at : \A j \in at : k <= j])
\* the person records of a payload that carry this id, in payload order
RecordsOf(payload, id) ==
    SelectSeq(PersonsOf(payload), LAMBDA p : HasId(p) /\ p.id[1][1] = id)

\* C15: every Person node has a non-empty id, a gx_id equal to its id and a
\* non-empty name; after a successful call a node whose id the payload carries
\* has the name and the birth (None when there is none) of the last record of
\* the payload with that id, and any other node is as the call found it; the
\* stores the calls start from are empty or hold the nodes of the records I2 and
\* Jane (I1) imported before.
C15_NodeProperties ==
    /\ \A k \in 1..Len(nodes) :
          /\ Len(nodes[k].id) > 0
          /\ nodes[k].gx_id = Some(nodes[k].id)
          /\ Len(nodes[k].name) > 0
    /\ \A c \in Calls :
          LET cr == calls[c]
          IN  /\ (\A d \in Calls : calls[d].pc = "idle") =>
                    \/ nodes = <<>>
                    \/ nodes = <<[id |-> Id2, name |-> Id2, birth |-> None,
                                  gx_id |-> Some(Id2)],
                                 [id |-> Id1, name |-> Jane, birth |-> None,
                                  gx_id |-> Some(Id1)]>>
              /\ (cr.pc = "done" /\ cr.response.status = 200) =>
                    \A k \in 1..Len(nodes) :
                       LET recs == RecordsOf(cr.payload, nodes[k].id)
                       IN  IF recs # <<>>
                           THEN /\ nodes[k].name = ExpectedName(recs[Len(recs)])
                                /\ nodes[k].birth = ExpectedBirth(recs[Len(recs)])
                           ELSE \E j \in 1..Len(cr.startNodes) : cr.startNodes[j] = nodes[k]

\* a successful call that found I1 named Jane without a birth and upserted it
\* twice: the node has the name and birth of the last record, and I2 is as before
C15_Witness ==
    /\ calls[1].pc = "done" /\ calls[1].response.status = 200
    /\ PersonsOf(calls[1].payload) = <<PersonJane1, PersonJohn>>
    /\ Len(calls[1].startNodes) = 2 /\ calls[1].startNodes[2].name = Jane
    /\ Len(nodes) = 2
    /\ nodes[2].id = Id1 /\ nodes[2].name = John /\ nodes[2].birth = Some(Date1970)
    /\ nodes[1] = calls[1].startNodes[1]

\* the edges of a store from a node with id src to a node with id dst
EdgesBetween(ns, es, src, dst) ==
    {k \in 1..Len(es) : ns[es[k].a].id = src /\ ns[es[k].b].id = dst}

\* C16: when the statement of a relationship entry returns and both references,
\* less their leading '#', are ids of Person nodes, the store then holds an edge
\* from the person1 node to the person2 node with the statement's label and with
\* gx_type the type string exactly as given (the empty string when the type is
\* empty or missing); that edge is the only one created or changed, so no edge
\* in the reverse direction appears; a canonical type gives its canonical label.
C16_DirectedEdge ==
    [][\A c \in Calls :
          (/\ calls[c].pc = "rels"
           /\ Len(calls'[c].issued) = Len(calls[c].issued) + 1
           /\ calls'[c].issued[Len(calls'[c].issued)].outcome = "ok") =>
             LET r == RelsOf(calls[c].payload)[calls[c].i]
                 st == calls'[c].issued[Len(calls'[c].issued)].st
                 src == StripHash(ResourceText(r.person1))
                 dst == StripHash(ResourceText(r.person2))
                 seg == StrUpper(LastSegment(TextOf(r.type)))
                 new == {k \in EdgesBetween(nodes, edges', src, dst) :
                            edges'[k].label = st.label}
             IN  (NodesWithId(src) # {} /\ NodesWithId(dst) # {}) =>
                    /\ Cardinality(new) = 1
                    /\ \A k \in new :
                          /\ r.type # PNull => edges'[k].gx_type = Some(TextOf(r.type))
                          /\ r.type = PNull => edges'[k].gx_type = None
                    /\ seg = COUPLE => st.label = COUPLE
                    /\ seg \in {PARENTCHILD, PARENT_CHILD} => st.label = PARENT_CHILD
                    /\ Len(edges) <= Len(edges') /\ Len(edges') <= Len(edges) + 1
                    /\ \A k \in 1..Len(edges) : k \notin new => edges'[k] = edges[k]
                    /\ nodes' = nodes
      ]_vars

\* http://gedcomx.org/Couple from #I1 to #I2 on a store that held that edge
\* with gx_type "couple" and an edge from I2 to I1: the gx_type is the type as
\* given, and the edge from I2 to I1 is as before
C16_Witness ==
    /\ calls[1].pc = "done" /\ calls[1].response.status = 200
    /\ Len(calls[1].issued) = 1
    /\ calls[1].issued[1].st.gx = Some(GxOrg \o Couple)
    /\ Len(edges) = 2 /\ Len(calls[1].startEdges) = 2
    /\ nodes[edges[1].a].id = Id1 /\ nodes[edges[1].b].id = Id2
    /\ edges[1].label = COUPLE /\ edges[1].gx_type = Some(GxOrg \o Couple)
    /\ calls[1].startEdges[1].gx_type = Some(StrLower(Couple))
    /\ nodes[edges[2].a].id = Id2 /\ nodes[edges[2].b].id = Id1
    /\ edges[2] = calls[1].startEdges[2]

\* C17: no two edges of the store have the same source id, destination id and
\* label, whatever was imported and however often; and after a successful call
\* every statement of it whose endpoints are ids of nodes has exactly one edge
\* with its source, destination and label, so that statements that differ in
\* label or in direction have different edges.
C17_OneEdgePerTriple ==
    /\ \A k, l \in 1..Len(edges) :
          (/\ nodes[edges[k].a].id = nodes[edges[l].a].id
           /\ nodes[edges[k].b].id = nodes[edges[l].b].id
           /\ edges[k].label = edges[l].label) => k = l
    /\ \A c \in Calls :
          (calls[c].pc = "done" /\ calls[c].response.status = 200) =>
             \A j \in 1..Len(RelEntries(calls[c])) :
                LET st == RelEntries(calls[c])[j].st
                IN  (NodesWithId(st.a) # {} /\ NodesWithId(st.b) # {}) =>
                       Cardinality({k \in EdgesBetween(nodes, edges, st.a, st.b) :
                                       edges[k].label = st.label}) = 1

\* the second successful run of a payload with COUPLE from I1 to I2, COUPLE from
\* I2 to I1 and KIN_1 from I2 to I1: three edges before it and three after it
C17_Witness ==
    /\ calls[1].pc = "done" /\ calls[1].response.status = 200
    /\ calls[1].prev = "clean"
    /\ RelsOf(calls[1].payload) = <<RelCouple, RelCoupleBack, RelCustom>>
    /\ Len(calls[1].issued) = 3
    /\ Len(calls[1].startEdges) = 3 /\ Len(edges) = 3
    /\ \E k \in 1..3 : edges[k].label = COUPLE /\ nodes[edges[k].a].id = Id1
    /\ \E k \in 1..3 : edges[k].label = COUPLE /\ nodes[edges[k].a].id = Id2
    /\ \E k \in 1..3 : edges[k].label # COUPLE /\ nodes[edges[k].a].id = Id2

\* C19: when a call succeeds after one or more attempts with the same payload
\* were aborted by a store failure, each after some of its upserts, the store is
\* the one a single failure-free import of the payload makes of the store the
\* first attempt found.
C19_RetryAfterFailure ==
    \A c \in Calls :
        LET cr == calls[c]
            once == StoreAfter(cr.orig.nodes, cr.orig.edges,
                               PersonsOf(cr.payload), RelsOf(cr.payload))
        IN  (cr.pc = "done" /\ cr.prev = "failed" /\ cr.response.status = 200) =>
               /\ nodes = once.nodes
               /\ edges = once.edges

\* a successful attempt on a store that was empty at first and in which an
\* aborted attempt had created the node of I1; the attempt upserted I1 again,
\* created I2 and merged the edge between them
C19_Witness ==
    /\ calls[1].pc = "done" /\ calls[1].prev = "failed"
    /\ calls[1].response.status = 200
    /\ calls[1].orig.nodes = <<>>
    /\ Len(calls[1].startNodes) = 1 /\ calls[1].startNodes[1].name = John
    /\ Len(calls[1].issued) = 3
    /\ Len(nodes) = 2 /\ nodes[1].name = John /\ nodes[2].id = Id2
    /\ Len(edges) = 1

\* C18: when two calls with the identical payload have both ended and neither
\* met a store failure, whatever the interleaving of their statements, the store
\* is the one a single import of the payload makes of the store the first call
\* found; and a call has its own driver: while a call runs its driver is open,
\* whether or not the other call has closed its own, and each call closes its
\* driver once.
C18_ConcurrentTwins ==
    /\ (/\ \A c \in Calls : calls[c].pc = "done" /\ calls[c].exc.kind # "store"
         /\ calls[1].payload = calls[2].payload) =>
          LET once == StoreAfter(calls[1].orig.nodes, calls[1].orig.edges,
                                 PersonsOf(calls[1].payload), RelsOf(calls[1].payload))
          IN  /\ nodes = once.nodes
              /\ edges = once.edges
              /\ \A c \in Calls : calls[c].response.status = 200
    /\ \A c \in Calls :
          /\ calls[c].pc \in {"session", "persons", "rels", "exit"} =>
                calls[c].driver = "open" /\ calls[c].driverCloses = 0
          /\ calls[c].pc \in {"persons", "rels"} => calls[c].session = "open"
          /\ calls[c].pc = "done" =>
                calls[c].driver = "closed" /\ calls[c].driverCloses = 1

\* both calls succeeded, each with its three statements; the second began
\* when the first had created one of the two nodes
C18_Witness ==
    /\ calls[1].pc = "done" /\ calls[2].pc = "done"
    /\ calls[1].response.status = 200 /\ calls[2].response.status = 200
    /\ calls[1].orig.nodes = <<>>
    /\ Len(calls[2].startNodes) = 1
    /\ Len(calls[1].issued) = 3 /\ Len(calls[2].issued) = 3
    /\ Len(nodes) = 2 /\ Len(edges) = 1

\* the relationships of a tree whose upper-cased type is no identifier
TreeBadRels(cr) ==
    {k \in 1..Len(RelsOf(cr.payload)) :
        ~WideIdentifier(StrUpper(RelsOf(cr.payload)[k].type))}
TreeRelEntries(cr) == SelectSeq(cr.issued, LAMBDA e : e.st.kind = "tree_rel")

\* C20: in create_tree no relationship statement is issued for the first entry
\* whose upper-cased type is no identifier nor for any entry after it; a call
\* that reaches such an entry ends with 400 and a detail that starts with
\* "Invalid relationship type", a 500 is only ever the result of a store
\* failure, and in either case the driver of the call is closed, once.
C20_InvalidTypeIs400 ==
    \A c \in Calls :
        LET cr == calls[c]
            bad == TreeBadRels(cr)
            first == IF bad = {} THEN 0 ELSE CHOOSE k \in bad : \A j \in bad : k <= j
        IN  /\ bad # {} => Len(TreeRelEntries(cr)) < first
            /\ cr.exc.kind = "http" =>
                  /\ cr.exc.phase = "tree_rels" /\ cr.exc.idx = first
                  /\ cr.pc \in {"tree_exit", "done"}
            /\ cr.pc = "done" =>
                  /\ cr.driver = "closed" /\ cr.driverCloses = 1
                  /\ cr.session # "open"
                  /\ (bad # {} /\ cr.exc.kind # "store") =>
                        cr.response = [status |-> 400, body |-> "Invalid relationship type: "]
                  /\ cr.response.status = 400 => (bad # {} /\ cr.exc.kind = "http")
                  /\ cr.response.status = 500 => cr.exc.kind = "store"
                  /\ cr.response.status = 200 => bad = {}

\* "MARRIED TO" before MARRIED: the person was upserted, no relationship
\* statement was issued, the response is 400 and the driver is closed
C20_Witness ==
    /\ calls[1].pc = "done" /\ calls[1].response.status = 400
    /\ Len(RelsOf(calls[1].payload)) = 2
    /\ RelsOf(calls[1].payload)[1].type = Married \o <<" ","T","O">>
    /\ RelsOf(calls[1].payload)[2].type = Married
    /\ Len(calls[1].issued) = 1 /\ calls[1].issued[1].st.kind = "tree_person"
    /\ calls[1].driver = "closed" /\ calls[1].session = "closed"
    /\ edges = calls[1].startEdges

\* the statements of a call one of whose endpoints is the id of no node
Unmatched(cr) ==
    {j \in 1..Len(cr.issued) :
        /\ cr.issued[j].st.kind = "rel"
        /\ (NodesWithId(cr.issued[j].st.a) = {} \/ NodesWithId(cr.issued[j].st.b) = {})}

\* C21: every edge of the store starts and ends at a Person node; a
\* relationship entry whose references resolve to non-empty ids has its
\* statement issued even when an id has no node; when every statement of a call
\* is of that kind the call has created no edge and no node, and a call without
\* a store failure returns success.
C21_OnlyExistingNodes ==
    /\ \A k \in 1..Len(edges) :
          edges[k].a \in 1..Len(nodes) /\ edges[k].b \in 1..Len(nodes)
    /\ \A c \in Calls :
          LET cr == calls[c]
          IN  /\ (cr.pc = "done" /\ cr.payload.isdict /\ cr.exc.kind # "store") =>
                    /\ cr.response.status = 200
                    /\ Len(RelEntries(cr)) =
                          Len(SelectSeq(RelsOf(cr.payload), HashResolved))
              /\ (cr.pc # "idle" /\ \A j \in 1..Len(cr.issued) : j \in Unmatched(cr)) =>
                    nodes = cr.startNodes /\ edges = cr.startEdges

\* a successful call on a store with the nodes I1 and I2 whose only entry goes
\* from "##I1", the id "#I1" of no node, to "#I2": the statement was issued and
\* returned, and the store is as before
C21_Witness ==
    /\ calls[1].pc = "done" /\ calls[1].response.status = 200
    /\ Len(calls[1].issued) = 1
    /\ calls[1].issued[1].st.a = <<"#", "I", "1">> /\ calls[1].issued[1].st.b = Id2
    /\ calls[1].issued[1].outcome = "ok"
    /\ Len(nodes) = 2 /\ Len(edges) = 2
    /\ nodes = calls[1].startNodes /\ edges = calls[1].startEdges

\* C22: a persons or relationships key that is absent or null is an empty
\* list: no statement of that pass is issued; with both keys absent or null the
\* call issues no statement, leaves the store as it found it, closes the driver
\* and, the session having opened, returns success; with only the relationships
\* key absent or null a call that raised nothing has upserted the persons that
\* have an id, in order, and issued no relationship statement.
C22_MissingListIsEmpty ==
    \A c \in Calls :
        LET cr == calls[c]
            noPersons == cr.payload.persons \in {Absent, PNull}
            noRels == cr.payload.relationships \in {Absent, PNull}
        IN  (cr.pc # "idle" /\ cr.payload.isdict) =>
              /\ noPersons =>
                    /\ cr.persons = <<>>
                    /\ \A j \in 1..Len(cr.issued) : cr.issued[j].st.kind # "person"
              /\ noRels =>
                    /\ cr.relationships = <<>>
                    /\ \A j \in 1..Len(cr.issued) : cr.issued[j].st.kind # "rel"
              /\ (noPersons /\ noRels) =>
                    /\ cr.issued = <<>>
                    /\ nodes = cr.startNodes /\ edges = cr.startEdges
                    /\ cr.pc = "done" =>
                          /\ cr.driverCloses = 1
                          /\ cr.exc.kind = "none" => cr.response.status = 200
              /\ (noRels /\ cr.pc = "done" /\ cr.exc.kind = "none") =>
                    /\ cr.response.status = 200
                    /\ IssuedPersonIds(cr) = PersonIdsOf(cr.payload)

\* the empty object on the seeded store: the call is over with success, no
\* statement, the driver closed once and the two nodes and two edges as before
C22_Witness ==
    /\ calls[1].pc = "done" /\ calls[1].payload.isdict
    /\ calls[1].payload.persons = Absent /\ calls[1].payload.relationships = Absent
    /\ calls[1].response.status = 200 /\ calls[1].issued = <<>>
    /\ calls[1].driverCloses = 1
    /\ Len(nodes) = 2 /\ Len(edges) = 2
    /\ nodes = calls[1].startNodes /\ edges = calls[1].startEdges

\* a letter or a digit of any script
Alphanumeric(ch) == ch \in AsciiLetters \cup AsciiDigits \cup WideLetters \cup WideNumerics
Replaced(seg) == [k \in 1..Len(seg) |-> IF Alphanumeric(seg[k]) THEN seg[k] ELSE "_"]
FallbackLabel(seg) ==
    IF seg = <<>> THEN RELATED
    ELSE IF WideIdentifier(Replaced(seg)) THEN Replaced(seg)
    ELSE RELATED

\* C23: for a type whose upper-cased last segment is none of COUPLE,
\* PARENTCHILD, PARENT_CHILD the label of the statement is RELATED when that
\* segment is empty (type absent, null, empty or ending in '/'), otherwise the
\* upper-cased segment with every character that is no letter or digit replaced
\* by '_', and RELATED when the replaced string is no identifier.
C23_FallbackLabel ==
    \A c \in Calls : \A j \in 1..Len(calls[c].issued) :
        LET st == calls[c].issued[j].st
        IN  (st.kind = "rel" /\ Unrecognized(st.gx)) =>
               st.label = FallbackLabel(StrUpper(LastSegment(TypeText(st.gx))))

\* http://gedcomx.org/1a, whose replaced segment 1A starts with a digit, was
\* merged as a RELATED edge
C23_Witness ==
    /\ calls[1].pc = "done" /\ calls[1].response.status = 200
    /\ Len(calls[1].issued) = 1
    /\ calls[1].issued[1].st.gx = Some(GxOrg \o <<"1", "a">>)
    /\ Replaced(StrUpper(LastSegment(TypeText(calls[1].issued[1].st.gx)))) = <<"1", "A">>
    /\ calls[1].issued[1].st.label = RELATED
    /\ \E k \in 1..Len(edges) : edges[k].label = RELATED /\ edges[k].gx_type = Some(GxOrg \o <<"1", "a">>)

\* a call has its response: one of the three terminal outcomes
Terminal(cr) == cr.pc = "done" /\ cr.response.status \in {200, 400, 500}
FailedStatement(cr) ==
    \/ \E j \in 1..Len(cr.issued) : cr.issued[j].outcome # "ok"
    \/ cr.exc.kind = "store"

\* C24: a call that has started eventually has its response, which is
\* success, 400 or 500; it has no response before that and the response, once
\* given, never changes; and the response is never success when a store
\* operation of the call has failed.
C24_Terminates ==
    /\ \A c \in {1} : (calls[c].pc # "idle") ~> Terminal(calls[c])
    /\ [](\A c \in Calls :
            /\ calls[c].pc # "done" => calls[c].response = NoResponse
            /\ calls[c].pc = "done" => Terminal(calls[c])
            /\ FailedStatement(calls[c]) => calls[c].response.status # 200)
    /\ [][\A c \in Calls : calls[c].pc = "done" => calls'[c] = calls[c]]_vars

\* a call whose second person upsert failed has ended with 500
C24_Witness ==
    /\ Terminal(calls[1]) /\ calls[1].response.status = 500
    /\ Len(calls[1].issued) = 2
    /\ calls[1].issued[1].outcome = "ok" /\ calls[1].issued[2].outcome # "ok"

\* the ids of the Person nodes, and the edges as (source id, destination id,
\* label)
IdsOf(ns) == {ns[k].id : k \in 1..Len(ns)}
TriplesOf(ns, es) ==
    {<<ns[es[k].a].id, ns[es[k].b].id, es[k].label>> : k \in 1..Len(es)}

\* C25: no step of an import_gedcomx or create_tree call, whether the call
\* succeeds or fails later or at that step, removes a node or an edge: the ids
\* of the nodes and the (source, destination, label) triples of the edges after
\* the step include those before it, and neither count goes down.
C25_StoreOnlyGrows ==
    [][/\ IdsOf(nodes) \subseteq IdsOf(nodes')
       /\ TriplesOf(nodes, edges) \subseteq TriplesOf(nodes', edges')
       /\ Len(nodes) <= Len(nodes') /\ Len(edges) <= Len(edges')]_vars

\* an import that failed with 500 after its first upsert and a create_tree call
\* after it that ended with 400 after its upserts: the store has the seeded
\* nodes and edges and the edge the second call added
C25_Witness ==
    /\ calls[1].pc = "done" /\ calls[1].response.status = 500
    /\ Len(calls[1].issued) = 2
    /\ calls[2].pc = "done" /\ calls[2].response.status = 400
    /\ Len(calls[2].issued) = 1 /\ calls[2].issued[1].st.kind = "tree_rel"
    /\ Len(calls[1].startEdges) = 2 /\ Len(edges) = 3
    /\ IdsOf(calls[1].startNodes) \subseteq IdsOf(nodes)
    /\ TriplesOf(calls[1].startNodes, calls[1].startEdges) \subseteq TriplesOf(nodes, edges)

\* the call whose statements were the last to reach the store
LastWriter(c) ==
    /\ calls[c].pc = "done"
    /\ \A d \in Calls : d > c => calls[d].pc = "idle"

\* C26: a person upsert of the import that returns leaves exactly one node with
\* its id, whose name, birth and gx_id are those of the statement whatever the
\* node held before (a birth of None removes the stored birth), and changes no
\* other node; so after a successful import the node of an id has the name and
\* the birth of the last record of the payload with that id, the birth being
\* absent when that record has no birth fact, and its gx_id is the id.
C26_LastWriterWins ==
    /\ [][\A c \in Calls :
            LET n == Len(calls'[c].issued)
                e == calls'[c].issued[n]
            IN  (n = Len(calls[c].issued) + 1 /\ e.st.kind = "person" /\ e.outcome = "ok") =>
                   /\ e.st.birth = ExpectedBirth(calls[c].persons[calls[c].i])
                   /\ \E k \in 1..Len(nodes') :
                         /\ nodes'[k] = [id |-> e.st.id, name |-> e.st.name,
                                         birth |-> e.st.birth, gx_id |-> Some(e.st.id)]
                         /\ \A j \in 1..Len(nodes') : nodes'[j].id = e.st.id => j = k
                   /\ \A j \in 1..Len(nodes) :
                         nodes[j].id # e.st.id => nodes'[j] = nodes[j]]_vars
    /\ [](\A c \in Calls :
            (LastWriter(c) /\ calls[c].response.status = 200
                /\ \A j \in 1..Len(calls[c].issued) : calls[c].issued[j].st.kind # "tree_person") =>
               \A k \in 1..Len(nodes) :
                  LET recs == RecordsOf(calls[c].payload, nodes[k].id)
                  IN  recs # <<>> =>
                        /\ nodes[k].name = ExpectedName(recs[Len(recs)])
                        /\ nodes[k].birth = ExpectedBirth(recs[Len(recs)])
                        /\ nodes[k].gx_id = Some(nodes[k].id))

\* create_tree stored I1 as John born 1970-01-01 without gx_id; the import after
\* it, whose records of I1 are John's with the birth fact and then one with a
\* display name and no birth fact, left the node named Jane, without birth, with
\* gx_id I1
C26_Witness ==
    /\ calls[1].pc = "done" /\ calls[1].response.status = 200
    /\ Len(calls[1].issued) = 1 /\ calls[1].issued[1].st.kind = "tree_person"
    /\ calls[1].issued[1].st.birth = Some(Date1970)
    /\ calls[1].startNodes = <<>>
    /\ calls[2].pc = "done" /\ calls[2].response.status = 200
    /\ calls[2].startNodes = <<[id |-> Id1, name |-> John, birth |-> Some(Date1970),
                               gx_id |-> None]>>
    /\ PersonsOf(calls[2].payload) = <<PersonJohn, PersonJane1>>
    /\ nodes = <<[id |-> Id1, name |-> Jane, birth |-> None, gx_id |-> Some(Id1)]>>

\* the first of fullText, display.name and id that is a non-empty text
NameSource(p) ==
    IF FullTextOf(p) # <<>> THEN FullTextOf(p)
    ELSE IF DisplayNameOf(p) # <<>> THEN DisplayNameOf(p)
    ELSE TextOf(p.id)

\* C27: a person upsert is issued only for an entry with a non-empty id, and
\* its name is the entry's fullText, else its display.name, else its id, never
\* the fallback literal "Unknown"; the same holds of the name of every node the
\* call wrote.
C27_UnknownNeverStored ==
    \A c \in Calls :
        LET cr == calls[c]
            ps == PersonsOf(cr.payload)
        IN  /\ \A j \in 1..Len(cr.issued) :
                  cr.issued[j].st.kind = "person" =>
                     /\ Len(ps) = 1 /\ HasId(ps[1])
                     /\ cr.issued[j].st.id = TextOf(ps[1].id)
                     /\ cr.issued[j].st.name = NameSource(ps[1])
                     /\ cr.issued[j].st.name # Unknown
                     /\ cr.issued[j].outcome = "ok" =>
                           \E k \in 1..Len(nodes) :
                              /\ nodes[k].id = cr.issued[j].st.id
                              /\ nodes[k].name = NameSource(ps[1])
            /\ \A k \in 1..Len(nodes) : nodes[k].name # Unknown

\* an entry with the id I1 whose fullText and display name are both the empty
\* string was stored on the empty store with its id as name
C27_Witness ==
    /\ calls[1].pc = "done" /\ calls[1].response.status = 200
    /\ LET p == PersonsOf(calls[1].payload)[1]
       IN  /\ FullTextOf(p) = <<>> /\ DisplayNameOf(p) = <<>>
           /\ p.names = PVal(<<[nameForms |-> PVal(<<[fullText |-> PVal(<<>>)]>>)]>>)
           /\ p.display = PVal([name |-> PVal(<<>>)])
           /\ p.id = PVal(Id1)
    /\ Len(calls[1].issued) = 1 /\ calls[1].issued[1].st.name = Id1
    /\ calls[1].startNodes = <<>>
    /\ nodes = <<[id |-> Id1, name |-> Id1, birth |-> None, gx_id |-> Some(Id1)]>>

\* C28: when create_tree raises its 400 at the k-th relationship, the call has
\* issued, and the store has answered, an upsert for every person of the
\* payload, in order, and a statement for each of the first k-1 relationships,
\* and nothing else; every person of the payload has its node, with the name and
\* birth of the last entry of its id, every one of the first k-1 relationships
\* has its edge, and they are still there when the call has answered 400.
C28_WritesBeforeValidation ==
    \A c \in Calls :
        LET cr == calls[c]
            ps == PersonsOf(cr.payload)
            rs == RelsOf(cr.payload)
            k == cr.exc.idx
        IN  (cr.exc.kind = "http" \/ (cr.pc = "done" /\ cr.response.status = 400)) =>
               /\ cr.exc.kind = "http" /\ k \in 1..Len(rs)
               /\ cr.pc = "done" => cr.response.status = 400
               /\ Len(cr.issued) = Len(ps) + k - 1
               /\ \A j \in 1..Len(cr.issued) : cr.issued[j].outcome = "ok"
               /\ \A j \in 1..Len(ps) :
                     /\ cr.issued[j].st.kind = "tree_person"
                     /\ cr.issued[j].st.id = ps[j].id
                     /\ \E n \in 1..Len(nodes) :
                           /\ nodes[n].id = ps[j].id
                           /\ (\A i \in (j + 1)..Len(ps) : ps[i].id # ps[j].id) =>
                                 nodes[n].name = ps[j].name /\ nodes[n].birth = ps[j].birth
               /\ \A j \in 1..(k - 1) :
                     /\ cr.issued[Len(ps) + j].st.kind = "tree_rel"
                     /\ cr.issued[Len(ps) + j].st.label = StrUpper(rs[j].type)
                     /\ (NodesWithId(rs[j].start_id) # {} /\ NodesWithId(rs[j].end_id) # {}) =>
                           <<rs[j].start_id, rs[j].end_id, StrUpper(rs[j].type)>>
                              \in TriplesOf(nodes, edges)

\* a tree of John (I1) with MARRIED and then "MARRIED TO" from I1 to I2 on the
\* seeded store: the answer is 400, and the node I1, named Jane before, is
\* John born 1970-01-01 and a third edge, MARRIED from I1 to I2, is there
C28_Witness ==
    /\ calls[1].pc = "done" /\ calls[1].response.status = 400
    /\ calls[1].exc.idx = 2
    /\ Len(calls[1].issued) = 2
    /\ RelsOf(calls[1].payload)[1].type = Married
    /\ Len(calls[1].startNodes) = 2 /\ calls[1].startNodes[2].name = Jane
    /\ Len(nodes) = 2 /\ nodes[2].id = Id1 /\ nodes[2].name = John
    /\ nodes[2].birth = Some(Date1970)
    /\ Len(calls[1].startEdges) = 2 /\ Len(edges) = 3
    /\ edges[3] = [a |-> 2, b |-> 1, label |-> Married, gx_type |-> None]

\* the statements a call has issued so far that returned and that name the
\* source, destination and label of the k-th edge
WritersOf(cr, k) ==
    {j \in 1..Len(cr.issued) :
        /\ cr.issued[j].st.kind = "rel" /\ cr.issued[j].outcome = "ok"
        /\ cr.issued[j].st.a = nodes[edges[k].a].id
        /\ cr.issued[j].st.b = nodes[edges[k].b].id
        /\ cr.issued[j].st.label = edges[k].label}

\* C29: the store holds one edge per (source, destination, label), and when
\* statements of the running or last call named that triple, with whatever raw
\* types, the gx_type of the edge is the raw type of the last of them: the
\* gx_type the edge had before, from the store or from an earlier entry, is gone.
C29_LastGxTypeWins ==
    /\ \A k, l \in 1..Len(edges) :
          (edges[k].a = edges[l].a /\ edges[k].b = edges[l].b
              /\ edges[k].label = edges[l].label) => k = l
    /\ \A k \in 1..Len(edges) :
          LET w == WritersOf(calls[1], k)
          IN  w # {} =>
                edges[k].gx_type = calls[1].issued[CHOOSE j \in w : \A i \in w : i <= j].st.gx

\* on the seeded store, whose COUPLE edge from I1 to I2 has the gx_type "couple",
\* the entries "couple" and "http://gedcomx.org/Couple" of one payload were
\* processed in that order: one COUPLE edge, with the gx_type of the second
C29_Witness ==
    /\ calls[1].pc = "done" /\ calls[1].response.status = 200
    /\ RelsOf(calls[1].payload) = <<RelCoupleLower, RelCouple>>
    /\ Len(calls[1].issued) = 2
    /\ calls[1].issued[1].st.label = COUPLE /\ calls[1].issued[2].st.label = COUPLE
    /\ Len(calls[1].startEdges) = 2
    /\ calls[1].startEdges[1].gx_type = Some(StrLower(Couple))
    /\ Len(edges) = 2
    /\ edges[1] = [a |-> 2, b |-> 1, label |-> COUPLE, gx_type |-> Some(GxOrg \o Couple)]

\* the node an upsert of this person record leaves
NodeOf(r) ==
    [id |-> TextOf(r.id), name |-> ExpectedName(r), birth |-> ExpectedBirth(r),
     gx_id |-> Some(TextOf(r.id))]
\* the store after the payloads of call c and then of call d, one after the
\* other, on the store the first request found
InSequence(c, d) ==
    PersonsPass(PersonsPass(calls[1].orig.nodes, PersonsOf(calls[c].payload)).nodes,
                PersonsOf(calls[d].payload)).nodes

\* C30: while two calls with different payloads run in any interleaving, and
\* after them, every node is a node of the store the calls found or has the
\* name, birth and gx_id computed from one person record of one of the two
\* payloads, all three from the same record; when both calls have succeeded
\* every node has the values of the last record of its id in one of the payloads.
C30_NodeFromOneRecord ==
    \A k \in 1..Len(nodes) :
        /\ \/ \A c \in Calls : calls[c].pc = "idle"
           \/ \E j \in 1..Len(calls[1].orig.nodes) : calls[1].orig.nodes[j] = nodes[k]
           \/ \E c \in Calls : \E j \in 1..Len(PersonsOf(calls[c].payload)) :
                 /\ HasId(PersonsOf(calls[c].payload)[j])
                 /\ nodes[k] = NodeOf(PersonsOf(calls[c].payload)[j])
        /\ (\A c \in Calls : calls[c].pc = "done" /\ calls[c].response.status = 200) =>
              \E c \in Calls :
                 LET recs == RecordsOf(calls[c].payload, nodes[k].id)
                 IN  recs # <<>> /\ nodes[k] = NodeOf(recs[Len(recs)])

\* both calls have succeeded and the store is neither what the first payload
\* and then the second would leave nor the reverse: the node I1 has the values
\* of the second call's record and the node I2 those of the first call's
C30_Witness ==
    /\ \A c \in Calls : calls[c].pc = "done" /\ calls[c].response.status = 200
    /\ calls[1].payload # calls[2].payload
    /\ nodes # InSequence(1, 2) /\ nodes # InSequence(2, 1)
    /\ \E k, l \in 1..Len(nodes) :
          /\ nodes[k].id = Id1 /\ nodes[l].id = Id2
          /\ nodes[k] = NodeOf(RecordsOf(calls[2].payload, Id1)[1])
          /\ nodes[k] # NodeOf(RecordsOf(calls[1].payload, Id1)[1])
          /\ nodes[l] = NodeOf(RecordsOf(calls[1].payload, Id2)[1])
          /\ nodes[l] # NodeOf(RecordsOf(calls[2].payload, Id2)[1])

====
